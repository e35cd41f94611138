--------------------------- MODULE LifespanProofs ---------------------------
(***************************************************************************)
(* Theorems about Lifespan, for any number of logins, handlers and health  *)
(* callers: transports are owned, closed, and closed for good; probes are  *)
(* spaced; no caller of the probe is stuck.                                *)
(***************************************************************************)
EXTENDS Lifespan, FairLockProofs

-----------------------------------------------------------------------------
(***************************************************************************)
(* The sessions.                                                           *)
(***************************************************************************)
Busy == {"sweep", "probe", "release"}

\* An entry belongs to a login that is over, and close_all() works on entries
\* that are no longer in the store.
Entered ==
    /\ \A l \in store \cup entries : login[l].st = "done"
    /\ store \cap entries = {}

\* What a login found expired is over, and closed when it is not in the store.
Due ==
    \A l \in Logins : login[l].st \in Busy =>
        \A x \in login[l].due : /\ login[x].st = "done"
                                /\ x \in store \/ client[x] = "closed"

\* The lifespan goes on once every handler has ended.
Phases ==
    /\ entries # {} => phase = "sessions"
    /\ phase \in {"sessions", "down"} => store = {}
    /\ phase \notin {"up", "draining"} => Quiet
    /\ phase \notin {"up", "draining"} => transport # "open"

\* The state of the sessions.
Store ==
    /\ TypeOK
    /\ phase \in {"up", "draining", "health", "sessions", "down"}
    /\ entries \subseteq Logins

SessionInv == Store /\ Owned /\ SweptFirst /\ Entered /\ Due /\ Phases

\* Before the lifespan goes on nothing is on the list of close_all().
LEMMA NoEntries ==
    ASSUME SessionInv, phase \in {"up", "draining"}
    PROVE  entries = {}
BY DEF SessionInv, Phases

LEMMA SessionInit == LifespanInit => SessionInv
<1> SUFFICES ASSUME LifespanInit PROVE SessionInv
  OBVIOUS
<1>1. Store
  BY DEF LifespanInit, Init, Store, TypeOK, LoginState, TaskState
<1>2. Owned /\ SweptFirst /\ Entered /\ Due /\ Phases
  BY DEF LifespanInit, Init, Owned, SweptFirst, Entered, Due, Phases, Busy
<1> QED
  BY <1>1, <1>2 DEF SessionInv

\* One step of a sweep, whoever of the other handlers has been at the store.
LEMMA SweepKeeps ==
    ASSUME SessionInv, phase \in {"up", "draining"}, NEW l \in Logins,
           NEW due \in SUBSET Logins,
           login[l].st \in {"idle", "sweep"},
           \A x \in due : login[x].st = "done" /\ (x \in store \/ client[x] = "closed"),
           Sweep(l, due),
           UNCHANGED <<expired, task, transport, phase, entries>>
    PROVE  SessionInv'
<1>1. entries = {} /\ entries' = {}
  BY NoEntries
<1>2. l \notin store /\ l \notin due
  BY DEF SessionInv, Entered
<1>3. CASE /\ \E x \in due \cap store : Drop(x)
           /\ login' = [login EXCEPT ![l] = [st |-> "sweep", due |-> due]]
  <2>1. PICK x \in due \cap store : Drop(x)
    BY <1>3
  <2>2. x # l /\ login[x].st = "done" /\ x \in Logins
    BY <1>2, <2>1
  <2>3. Store'
    BY <1>3, <2>1 DEF SessionInv, Store, TypeOK, Drop, LoginState
  <2>4. \A k \in Logins : login'[k] = IF k = l THEN [st |-> "sweep", due |-> due] ELSE login[k]
    BY <1>3 DEF SessionInv, Store, TypeOK
  <2>5. \A k \in Logins : client'[k] = IF k = x THEN "closed" ELSE client[k]
    BY <2>1 DEF SessionInv, Store, TypeOK, Drop
  <2>6. store' = store \ {x}
    BY <2>1 DEF Drop
  <2>7. Owned'
    BY <1>1, <1>2, <2>2, <2>4, <2>5, <2>6 DEF SessionInv, Owned
  <2>8. SweptFirst'
    BY <2>4, <2>5, <2>6, <2>3 DEF SessionInv, Store, TypeOK, SweptFirst, LoginState
  <2>9. Entered'
    BY <1>1, <1>2, <2>4, <2>6 DEF SessionInv, Store, TypeOK, Entered
  <2>10. Due'
    BY <1>2, <2>3, <2>4, <2>5, <2>6 DEF SessionInv, Store, TypeOK, LoginState, Due, Busy
  <2>11. Phases'
    BY <1>1, <2>6 DEF SessionInv, Phases
  <2> QED
    BY <2>3, <2>7, <2>8, <2>9, <2>10, <2>11 DEF SessionInv
<1>4. CASE /\ due \cap store = {}
           /\ client' = [client EXCEPT ![l] = "open"]
           /\ login' = [login EXCEPT ![l] = [st |-> "probe", due |-> due]]
           /\ UNCHANGED store
  <2>1. Store'
    BY <1>4 DEF SessionInv, Store, TypeOK, LoginState
  <2>2. \A k \in Logins : login'[k] = IF k = l THEN [st |-> "probe", due |-> due] ELSE login[k]
    BY <1>4 DEF SessionInv, Store, TypeOK
  <2>3. \A k \in Logins : client'[k] = IF k = l THEN "open" ELSE client[k]
    BY <1>4 DEF SessionInv, Store, TypeOK
  <2>4. Owned'
    BY <1>1, <1>4, <2>2, <2>3 DEF SessionInv, Owned
  <2>5. \A k \in Logins : login[k].st \in Busy => l \notin login[k].due
    BY DEF SessionInv, Due
  <2>6. SweptFirst'
    <3> SUFFICES ASSUME NEW k \in Logins, login'[k].st = "probe", NEW x \in login'[k].due
                 PROVE  client'[x] = "closed" /\ x \notin store
      BY <1>4 DEF SweptFirst
    <3>1. CASE k = l
      BY <1>2, <1>4, <2>2, <2>3, <3>1
    <3>2. CASE k # l
      <4>1. login[k].st = "probe" /\ x \in login[k].due /\ x # l
        BY <2>2, <2>5, <3>2 DEF Busy
      <4>2. x \in Logins
        BY <4>1 DEF SessionInv, Store, TypeOK, LoginState
      <4> QED
        BY <2>3, <4>1, <4>2 DEF SessionInv, SweptFirst
    <3> QED
      BY <3>1, <3>2
  <2>7. Entered'
    BY <1>1, <1>2, <1>4, <2>2 DEF SessionInv, Store, TypeOK, Entered
  <2>8. Due'
    <3> SUFFICES ASSUME NEW k \in Logins, login'[k].st \in Busy, NEW x \in login'[k].due
                 PROVE  login'[x].st = "done" /\ (x \in store \/ client'[x] = "closed")
      BY <1>4 DEF Due
    <3>1. CASE k = l
      BY <1>2, <1>4, <2>2, <2>3, <3>1
    <3>2. CASE k # l
      <4>1. login[k].st \in Busy /\ x \in login[k].due /\ x # l
        BY <2>2, <2>5, <3>2
      <4>2. x \in Logins
        BY <4>1 DEF SessionInv, Store, TypeOK, LoginState, Busy
      <4> QED
        BY <2>2, <2>3, <4>1, <4>2 DEF SessionInv, Due
    <3> QED
      BY <3>1, <3>2
  <2>9. Phases'
    BY <1>1, <1>4 DEF SessionInv, Phases
  <2> QED
    BY <2>1, <2>4, <2>6, <2>7, <2>8, <2>9 DEF SessionInv
<1> QED
  BY <1>3, <1>4 DEF Sweep

\* An entry is dropped by a handler that found it in the store.
LEMMA DropKeeps ==
    ASSUME SessionInv, phase \in {"up", "draining"}, NEW x \in store, Drop(x),
           task' \in [Tasks -> TaskState],
           UNCHANGED <<expired, login, transport, phase, entries>>
    PROVE  SessionInv'
<1>1. entries = {} /\ entries' = {}
  BY NoEntries
<1>2. x \in Logins /\ login[x].st = "done"
  BY DEF SessionInv, Store, TypeOK, Entered
<1>3. Store'
  BY DEF SessionInv, Store, TypeOK, Drop
<1>4. \A k \in Logins : client'[k] = IF k = x THEN "closed" ELSE client[k]
  BY DEF SessionInv, Store, TypeOK, Drop
<1>5. store' = store \ {x}
  BY DEF Drop
<1>6. Owned'
  BY <1>1, <1>2, <1>4, <1>5 DEF SessionInv, Owned
<1>7. \A k \in Logins : login[k].st \in Busy => login[k].due \subseteq Logins
  BY DEF SessionInv, Store, TypeOK, LoginState, Busy
<1>8. SweptFirst'
  BY <1>4, <1>5, <1>7 DEF SessionInv, SweptFirst, Busy
<1>9. Entered' /\ Due'
  BY <1>1, <1>4, <1>5, <1>7 DEF SessionInv, Entered, Due
<1>10. Phases'
  BY <1>1, <1>5 DEF SessionInv, Phases
<1> QED
  BY <1>3, <1>6, <1>8, <1>9, <1>10 DEF SessionInv

\* A login that has ended its sweep gets an answer, or gives up.
LEMMA LoginKeeps ==
    ASSUME SessionInv, phase \in {"up", "draining"}, NEW l \in Logins,
           LoginSucceeds(l) \/ LoginFails(l) \/ LoginEnds(l),
           UNCHANGED <<transport, phase, entries>>
    PROVE  SessionInv'
<1>1. entries = {} /\ entries' = {}
  BY NoEntries
<1>2. login[l].st \in Busy /\ l \notin store
  BY DEF SessionInv, Entered, LoginSucceeds, LoginFails, LoginEnds, Busy
<1>3. \A k \in Logins : login[k].st \in Busy => l \notin login[k].due /\ login[k].due \subseteq Logins
  BY <1>2 DEF SessionInv, Store, TypeOK, LoginState, Due, Busy
<1>4. login[l] \in LoginState /\ login[l].due \subseteq Logins
  BY <1>2, <1>3 DEF SessionInv, Store, TypeOK
<1>5. CASE LoginSucceeds(l)
  <2>1. Store'
    BY <1>5 DEF SessionInv, Store, TypeOK, LoginSucceeds, LoginState
  <2>2. \A k \in Logins : login'[k] = IF k = l THEN [st |-> "done"] ELSE login[k]
    BY <1>5 DEF SessionInv, Store, TypeOK, LoginSucceeds
  <2>3. store' = store \cup {l} /\ client' = client /\ login[l].st = "probe"
    BY <1>5 DEF LoginSucceeds
  <2>4. Owned'
    BY <1>1, <2>2, <2>3 DEF SessionInv, Owned
  <2>5. SweptFirst' /\ Due'
    BY <1>3, <2>2, <2>3 DEF SessionInv, SweptFirst, Due, Busy
  <2>6. Entered' /\ Phases'
    BY <1>1, <2>2, <2>3 DEF SessionInv, Store, TypeOK, Entered, Phases
  <2> QED
    BY <2>1, <2>4, <2>5, <2>6 DEF SessionInv
<1>6. CASE LoginFails(l)
  <2>1. Store'
    BY <1>4, <1>6 DEF SessionInv, Store, TypeOK, LoginFails, LoginState
  <2>2. \A k \in Logins : login'[k] = IF k = l THEN [st |-> "release", due |-> login[l].due]
                                             ELSE login[k]
    BY <1>4, <1>6 DEF SessionInv, Store, TypeOK, LoginFails, LoginState
  <2>3. \A k \in Logins : client'[k] = IF k = l THEN "closed" ELSE client[k]
    BY <1>6 DEF SessionInv, Store, TypeOK, LoginFails
  <2>4. store' = store
    BY <1>6 DEF LoginFails
  <2>5. Owned'
    BY <1>1, <1>2, <2>2, <2>3, <2>4 DEF SessionInv, Owned
  <2>6. SweptFirst' /\ Due'
    BY <1>2, <1>3, <2>2, <2>3, <2>4 DEF SessionInv, SweptFirst, Due, Busy
  <2>7. Entered' /\ Phases'
    BY <1>1, <1>2, <2>2, <2>4 DEF SessionInv, Store, TypeOK, Entered, Phases
  <2> QED
    BY <2>1, <2>5, <2>6, <2>7 DEF SessionInv
<1>7. CASE LoginEnds(l)
  <2>1. Store'
    BY <1>7 DEF SessionInv, Store, TypeOK, LoginEnds, LoginState
  <2>2. \A k \in Logins : login'[k] = IF k = l THEN [st |-> "done"] ELSE login[k]
    BY <1>7 DEF SessionInv, Store, TypeOK, LoginEnds
  <2>3. store' = store /\ client' = client /\ login[l].st \in {"sweep", "release"}
    BY <1>7 DEF LoginEnds
  <2>4. Owned'
    BY <1>1, <1>2, <2>2, <2>3 DEF SessionInv, Owned
  <2>5. SweptFirst' /\ Due'
    BY <1>3, <2>2, <2>3 DEF SessionInv, SweptFirst, Due, Busy
  <2>6. Entered' /\ Phases'
    BY <1>1, <1>2, <2>2, <2>3 DEF SessionInv, Store, TypeOK, Entered, Phases
  <2> QED
    BY <2>1, <2>4, <2>5, <2>6 DEF SessionInv
<1> QED
  BY <1>5, <1>6, <1>7

\* The handlers, while the application is up or draining.
LEMMA HandlersKeep ==
    ASSUME SessionInv, phase \in {"up", "draining"}, Request \/ Work,
           UNCHANGED <<healthVars, phase, entries>>
    PROVE  SessionInv'
<1> USE DEF healthVars
<1>1. ASSUME NEW l \in Logins, LoginBegins(l) PROVE SessionInv'
  <2>1. /\ login[l].st = "idle" /\ store \cap expired \in SUBSET Logins
        /\ Sweep(l, store \cap expired) /\ UNCHANGED <<expired, task>>
    BY <1>1 DEF LoginBegins, SessionInv, Store, TypeOK
  <2>2. \A x \in store \cap expired : login[x].st = "done" /\ x \in store
    BY DEF SessionInv, Entered
  <2> QED
    BY <2>1, <2>2, SweepKeeps
<1>2. ASSUME NEW l \in Logins, SweepGoesOn(l) PROVE SessionInv'
  <2>1. /\ login[l].st = "sweep" /\ login[l].due \in SUBSET Logins
        /\ Sweep(l, login[l].due) /\ UNCHANGED <<expired, task>>
    BY <1>2 DEF SweepGoesOn, SessionInv, Store, TypeOK, LoginState
  <2>2. \A x \in login[l].due : login[x].st = "done" /\ (x \in store \/ client[x] = "closed")
    BY <2>1 DEF SessionInv, Due, Busy
  <2> QED
    BY <2>1, <2>2, SweepKeeps
<1>3. ASSUME NEW l \in Logins, LoginSucceeds(l) \/ LoginFails(l) \/ LoginEnds(l)
      PROVE  SessionInv'
  BY <1>3, LoginKeeps
<1>4. ASSUME NEW l \in Logins, Expire(l) PROVE SessionInv'
  BY <1>4 DEF Expire, SessionInv, Store, TypeOK, Owned, SweptFirst, Entered, Due, Phases, Quiet
<1>5. ASSUME NEW t \in Tasks, NEW l \in Logins, Lookup(t, l) PROVE SessionInv'
  <2>1. CASE l \in expired
    <3>1. task' \in [Tasks -> TaskState]
      BY <1>5, <2>1 DEF Lookup, SessionInv, Store, TypeOK, TaskState
    <3> QED
      BY <1>5, <2>1, <3>1, DropKeeps DEF Lookup
  <2>2. CASE l \notin expired
    <3>1. task' \in [Tasks -> TaskState]
      BY <1>5, <2>2 DEF Lookup, SessionInv, Store, TypeOK, TaskState
    <3>2. UNCHANGED <<store, expired, client, login>>
      BY <1>5, <2>2 DEF Lookup
    <3> QED
      BY <3>1, <3>2 DEF SessionInv, Store, TypeOK, Owned, SweptFirst, Entered, Due, Phases
  <2> QED
    BY <2>1, <2>2
<1>6. ASSUME NEW t \in Tasks, NEW l \in Logins, Logout(t, l) PROVE SessionInv'
  <2>1. task' \in [Tasks -> TaskState]
    BY <1>6 DEF Logout, SessionInv, Store, TypeOK, TaskState
  <2> QED
    BY <1>6, <2>1, DropKeeps DEF Logout
<1>7. ASSUME NEW t \in Tasks, TaskEnds(t) PROVE SessionInv'
  <2>1. task' \in [Tasks -> TaskState]
    BY <1>7 DEF TaskEnds, SessionInv, Store, TypeOK, TaskState
  <2> QED
    BY <1>7, <2>1 DEF TaskEnds, SessionInv, Store, TypeOK, Owned, SweptFirst, Entered, Due, Phases
<1> QED
  BY <1>1, <1>2, <1>3, <1>4, <1>5, <1>6, <1>7 DEF Request, Work

\* close_all() takes one transport after another off its list.
LEMMA ShutKeeps ==
    ASSUME SessionInv, phase \notin {"up", "draining"},
           NEW left \in SUBSET Logins, left = store \cup entries, CloseEntry(left),
           store' = {}, phase' = "sessions",
           UNCHANGED <<expired, login, task, healthVars>>
    PROVE  SessionInv'
<1>1. PICK x \in left : client' = [client EXCEPT ![x] = "closed"] /\ entries' = left \ {x}
  BY DEF CloseEntry
<1>2. \A l \in Logins : login[l].st \in {"idle", "done"}
  BY DEF SessionInv, Phases, Quiet
<1>3. \A k \in Logins : client'[k] = IF k = x THEN "closed" ELSE client[k]
  BY <1>1 DEF SessionInv, Store, TypeOK
<1>4. Store'
  BY <1>1 DEF SessionInv, Store, TypeOK
<1>5. Owned'
  BY <1>1, <1>2, <1>3 DEF SessionInv, Owned
<1>6. SweptFirst' /\ Due'
  BY <1>2 DEF SweptFirst, Due, Busy
<1>7. Entered'
  BY <1>1 DEF SessionInv, Entered
<1>8. Phases'
  BY DEF SessionInv, Phases, Quiet, healthVars
<1> QED
  BY <1>4, <1>5, <1>6, <1>7, <1>8 DEF SessionInv

LEMMA SessionStep == SessionInv /\ [Next]_vars => SessionInv'
<1> SUFFICES ASSUME SessionInv, [Next]_vars PROVE SessionInv'
  OBVIOUS
<1> USE DEF healthVars, sessionVars
<1>1. CASE phase = "up" /\ Request /\ UNCHANGED <<healthVars, phase, entries>>
  BY <1>1, HandlersKeep
<1>2. CASE phase \in {"up", "draining"} /\ Work /\ UNCHANGED <<healthVars, phase, entries>>
  BY <1>2, HandlersKeep
<1>3. CASE phase \in {"up", "draining"} /\ UNCHANGED <<sessionVars, phase, entries>>
  BY <1>3 DEF SessionInv, Store, TypeOK, Owned, SweptFirst, Entered, Due, Phases, Quiet
<1>4. CASE Stop
  BY <1>4 DEF Stop, SessionInv, Store, TypeOK, Owned, SweptFirst, Entered, Due, Phases, Quiet
<1>5. CASE ShutHealth
  <2>1. entries = {} /\ Quiet /\ transport' # "open"
    BY <1>5, NoEntries DEF ShutHealth, Health!Close
  <2> QED
    BY <1>5, <2>1 DEF ShutHealth, SessionInv, Store, TypeOK, Owned, SweptFirst, Entered, Due,
                      Phases, Quiet
<1>6. CASE ShutSessions
  <2>1. entries = {} /\ store \in SUBSET Logins
    BY <1>6 DEF ShutSessions, SessionInv, Phases, Store, TypeOK
  <2> QED
    BY <1>6, <2>1, ShutKeeps DEF ShutSessions
<1>7. CASE ShutNext
  <2>1. store = {} /\ entries \in SUBSET Logins
    BY <1>7 DEF ShutNext, SessionInv, Phases, Store
  <2> QED
    BY <1>7, <2>1, ShutKeeps DEF ShutNext
<1>8. CASE Down
  <2>1. store = {} /\ entries = {}
    BY <1>8 DEF Down, SessionInv, Phases
  <2> QED
    BY <1>8, <2>1 DEF Down, SessionInv, Store, TypeOK, Owned, SweptFirst, Entered, Due, Phases, Quiet
<1>9. CASE UNCHANGED vars
  BY <1>9 DEF vars, SessionInv, Store, TypeOK, Owned, SweptFirst, Entered, Due, Phases, Quiet
<1> QED
  BY <1>1, <1>2, <1>3, <1>4, <1>5, <1>6, <1>7, <1>8, <1>9 DEF Next

-----------------------------------------------------------------------------
(***************************************************************************)
(* The health probe.                                                       *)
(***************************************************************************)
\* The lock fits what the callers do: whoever holds it works or is about to be
\* resumed, and whoever waits without it is in the queue.
LockFits ==
    /\ Ordered(lock)
    /\ \A c \in Callers : c \in ToSet(lock.queue)
                            <=> caller[c].st = "waiting" /\ lock.holder # c
    /\ \A c \in Callers : caller[c].st = "probing" => lock.holder = c
    /\ \A c \in Callers : lock.holder = c => caller[c].st \in {"waiting", "probing"}

\* What is cached is what the last probe said, and no time lies ahead.
Times ==
    /\ cache = last
    /\ last.at <= now
    /\ \A c \in Callers : caller[c].st = "probing" => caller[c].since <= now

\* The lock of the health probe is the lock of FairLock.
LEMMA SameLock ==
    /\ Health!Free = Free
    /\ \A s, t : Health!Acquire(s, t) = Acquire(s, t)
    /\ \A s : Health!Release(s) = Release(s)
    /\ \A s, t : Health!Leave(s, t) = Leave(s, t)
<1>1. Health!Free = Free
  BY DEF Health!Free, Free
<1>2. \A s, t : Health!Acquire(s, t) = Acquire(s, t)
  BY DEF Health!Acquire, Acquire
<1>3. \A s : Health!Release(s) = Release(s)
  BY DEF Health!Release, Release
<1>4. ASSUME NEW s, NEW t PROVE Health!Leave(s, t) = Leave(s, t)
  <2>1. Health!RemoveFirst(s.queue, t) = RemoveFirst(s.queue, t)
    BY DEF Health!RemoveFirst, RemoveFirst, Health!RemoveAt, RemoveAt,
           Health!SelectInSeq, SelectInSeq, Health!Min, Min
  <2> QED
    BY <1>3, <2>1 DEF Health!Leave, Leave
<1> QED
  BY <1>1, <1>2, <1>3, <1>4

HealthInv == Health!TypeOK /\ LockFits /\ Times /\ ProbesSpaced

CallerStates == [st: {"idle", "waiting"}] \cup [st: {"probing"}, since: 0..MaxTime]
                \cup [st: {"answered"}, verdict: Health!Verdicts, at: 0..MaxTime]

LEMMA HealthTypes ==
    ASSUME HealthInv
    PROVE  /\ now \in Nat /\ MaxTime \in Nat /\ now <= MaxTime
           /\ lock \in LocksOf(Callers) /\ Ordered(lock) /\ NoTask \notin Callers
           /\ caller \in [Callers -> CallerStates]
           /\ last.at \in 0..MaxTime
           /\ cache # Health!Never => cache.verdict \in Health!Verdicts
BY LifespanAssumption DEF HealthInv, Health!TypeOK, Health!Records, Health!Never,
   CallerStates, LockFits, LocksOf

\* The caller who holds the lock answers from the cache or starts a probe.
LEMMA LockedKeeps ==
    ASSUME HealthInv, NEW c \in Callers, NEW l \in LocksOf(Callers), Ordered(l),
           l.holder = c, c \notin ToSet(l.queue),
           \A d \in Callers : d # c => /\ caller[d].st # "probing"
                                       /\ d \in ToSet(l.queue) <=> caller[d].st = "waiting",
           Health!Locked(c, l)
    PROVE  HealthInv'
<1>1. /\ now \in Nat /\ MaxTime \in Nat /\ now <= MaxTime
      /\ caller \in [Callers -> CallerStates]
      /\ cache # Health!Never => cache.verdict \in Health!Verdicts
      /\ NoTask \notin Callers
  BY HealthTypes
<1>2. now' = now /\ cache' = cache /\ last' = last
  BY DEF Health!Locked
<1>3. CASE /\ Health!Fresh
           /\ Health!Answer(c, cache.verdict)
           /\ lock' = Release(l)
           /\ UNCHANGED transport
  <2>1. caller' = [caller EXCEPT ![c] = [st |-> "answered", verdict |-> cache.verdict, at |-> now]]
    BY <1>3 DEF Health!Answer
  <2>2. \A d \in Callers : caller'[d] = IF d = c
                    THEN [st |-> "answered", verdict |-> cache.verdict, at |-> now]
                    ELSE caller[d]
    BY <1>1, <2>1
  <2>3. caller' \in [Callers -> CallerStates]
    BY <1>1, <1>3, <2>1 DEF Health!Fresh, CallerStates
  <2>4. /\ Release(l) \in LocksOf(Callers)
        /\ Ordered(Release(l))
        /\ \/ /\ Release(l).holder = NoTask
              /\ ToSet(l.queue) = {} /\ ToSet(Release(l).queue) = {}
           \/ /\ Release(l).holder \in ToSet(l.queue)
              /\ ToSet(Release(l).queue) = ToSet(l.queue) \ {Release(l).holder}
    BY <1>1, ReleaseOrdered
  <2>5. Health!TypeOK'
    BY <1>2, <1>3, <2>3, <2>4 DEF HealthInv, Health!TypeOK, LocksOf, CallerStates
  <2>6. LockFits'
    BY <1>1, <1>3, <2>2, <2>4 DEF LockFits
  <2>7. Times' /\ ProbesSpaced'
    BY <1>2, <2>2 DEF HealthInv, Times, ProbesSpaced, Health!ProbesSpaced
  <2> QED
    BY <2>5, <2>6, <2>7 DEF HealthInv
<1>4. CASE /\ ~Health!Fresh
           /\ caller' = [caller EXCEPT ![c] = [st |-> "probing", since |-> now]]
           /\ transport' = IF transport = "none" THEN "open" ELSE transport
           /\ lock' = l
  <2>1. \A d \in Callers : caller'[d] = IF d = c THEN [st |-> "probing", since |-> now]
                                                 ELSE caller[d]
    BY <1>1, <1>4
  <2>2. caller' \in [Callers -> CallerStates]
    BY <1>1, <1>4 DEF CallerStates
  <2>3. Health!TypeOK'
    BY <1>2, <1>4, <2>2 DEF HealthInv, Health!TypeOK, LocksOf, CallerStates
  <2>4. LockFits'
    BY <1>4, <2>1 DEF LockFits
  <2>5. Times'
    BY <1>1, <1>2, <2>1 DEF HealthInv, Times
  <2>6. last = Health!Never \/ now - last.at >= Ttl
    BY <1>1, <1>4, HealthTypes, LifespanAssumption DEF HealthInv, Times, Health!Fresh
  <2>7. ProbesSpaced'
    BY <1>2, <1>4, <2>1, <2>6 DEF ProbesSpaced, Health!ProbesSpaced, Health!Never
  <2> QED
    BY <2>3, <2>4, <2>5, <2>7 DEF HealthInv
<1> QED
  BY <1>3, <1>4, SameLock DEF Health!Locked

\* A caller gives the lock, or its place in the queue, back.
LEMMA LeaveKeepsFit ==
    ASSUME HealthInv, NEW c \in Callers, caller[c].st \in {"waiting", "probing"},
           caller' \in [Callers -> CallerStates],
           caller'[c].st \in {"idle", "answered"},
           \A d \in Callers : d # c => caller'[d] = caller[d],
           lock' = Leave(lock, c)
    PROVE  lock' \in LocksOf(Callers) /\ LockFits'
<1>1. lock \in LocksOf(Callers) /\ Ordered(lock) /\ NoTask \notin Callers
  BY HealthTypes
<1>2. CASE lock.holder = c
  <2>1. lock' = Release(lock)
    BY <1>2 DEF Leave
  <2>2. /\ Release(lock) \in LocksOf(Callers)
        /\ Ordered(Release(lock))
        /\ \/ /\ Release(lock).holder = NoTask
              /\ ToSet(lock.queue) = {} /\ ToSet(Release(lock).queue) = {}
           \/ /\ Release(lock).holder \in ToSet(lock.queue)
              /\ ToSet(Release(lock).queue) = ToSet(lock.queue) \ {Release(lock).holder}
    BY <1>1, ReleaseOrdered
  <2>3. \A d \in Callers : d # c => caller[d].st # "probing"
                                    /\ (d \in ToSet(lock.queue) <=> caller[d].st = "waiting")
    BY <1>2 DEF HealthInv, LockFits
  <2>4. c \notin ToSet(lock.queue)
    BY <1>2 DEF HealthInv, LockFits
  <2> QED
    BY <1>1, <2>1, <2>2, <2>3, <2>4 DEF LockFits
<1>3. CASE lock.holder # c
  <2>1. c \in ToSet(lock.queue)
    BY <1>3 DEF HealthInv, LockFits
  <2>2. /\ lock' \in LocksOf(Callers) /\ Ordered(lock') /\ lock'.holder = lock.holder
        /\ ToSet(lock'.queue) = ToSet(lock.queue) \ {c}
    BY <1>1, <1>3, <2>1, LeaveOrdered
  <2> QED
    BY <1>3, <2>2 DEF HealthInv, LockFits
<1> QED
  BY <1>2, <1>3

LEMMA AskKeeps ==
    ASSUME HealthInv, NEW c \in Callers, Health!Ask(c)
    PROVE  HealthInv'
<1>1. /\ lock \in LocksOf(Callers) /\ Ordered(lock) /\ NoTask \notin Callers
      /\ caller \in [Callers -> CallerStates]
  BY HealthTypes
<1>2. caller[c].st \in {"idle", "answered"}
  BY DEF Health!Ask
<1>3. lock.holder # c /\ c \notin ToSet(lock.queue)
  BY <1>2 DEF HealthInv, LockFits
<1> DEFINE l == Acquire(lock, c)
<1>4. /\ l \in LocksOf(Callers) /\ Ordered(l)
      /\ lock.holder = NoTask => l.holder = c /\ ToSet(l.queue) = ToSet(lock.queue)
      /\ lock.holder # NoTask => /\ l.holder = lock.holder
                                 /\ ToSet(l.queue) = ToSet(lock.queue) \cup {c}
  BY <1>1, <1>3, AcquireOrdered
<1>5. CASE lock.holder = NoTask /\ Health!Locked(c, l)
  <2> HIDE DEF l
  <2>1. \A d \in Callers : d # c => /\ caller[d].st # "probing"
                                    /\ d \in ToSet(l.queue) <=> caller[d].st = "waiting"
    BY <1>1, <1>4, <1>5 DEF HealthInv, LockFits
  <2> QED
    BY <1>3, <1>4, <1>5, <2>1, LockedKeeps
<1>6. CASE /\ lock.holder # NoTask
           /\ lock' = l
           /\ caller' = [caller EXCEPT ![c] = [st |-> "waiting"]]
           /\ UNCHANGED <<now, cache, transport, last>>
  <2> HIDE DEF l
  <2>1. \A d \in Callers : caller'[d] = IF d = c THEN [st |-> "waiting"] ELSE caller[d]
    BY <1>1, <1>6
  <2>2. caller' \in [Callers -> CallerStates]
    BY <1>1, <1>6 DEF CallerStates
  <2>3. Health!TypeOK'
    BY <1>4, <1>6, <2>2 DEF HealthInv, Health!TypeOK, LocksOf, CallerStates
  <2>4. LockFits'
    BY <1>3, <1>4, <1>6, <2>1 DEF HealthInv, LockFits
  <2>5. Times' /\ ProbesSpaced'
    BY <1>4, <1>6, <2>1 DEF HealthInv, Times, ProbesSpaced, Health!ProbesSpaced
  <2> QED
    BY <2>3, <2>4, <2>5 DEF HealthInv
<1> QED
  BY <1>5, <1>6, SameLock DEF Health!Ask

LEMMA ProbedKeeps ==
    ASSUME HealthInv, NEW c \in Callers, NEW v \in Health!Verdicts, Health!Probed(c, v)
    PROVE  HealthInv'
<1>1. /\ now \in Nat /\ MaxTime \in Nat /\ now <= MaxTime
      /\ caller \in [Callers -> CallerStates]
  BY HealthTypes
<1>2. /\ caller[c].st = "probing" /\ lock.holder = c
      /\ caller' = [caller EXCEPT ![c] = [st |-> "answered", verdict |-> v, at |-> now]]
      /\ cache' = [verdict |-> v, at |-> now] /\ last' = cache'
      /\ lock' = Release(lock) /\ UNCHANGED <<now, transport>>
  BY SameLock DEF Health!Probed, Health!Answer, HealthInv, LockFits
<1>3. \A d \in Callers : caller'[d] = IF d = c
                  THEN [st |-> "answered", verdict |-> v, at |-> now] ELSE caller[d]
  BY <1>1, <1>2
<1>4. caller' \in [Callers -> CallerStates]
  BY <1>1, <1>2 DEF CallerStates
<1>5. lock' = Leave(lock, c)
  BY <1>2 DEF Leave
<1>6. lock' \in LocksOf(Callers) /\ LockFits'
  BY <1>2, <1>3, <1>4, <1>5, LeaveKeepsFit
<1>7. Health!TypeOK'
  BY <1>1, <1>2, <1>4, <1>6 DEF HealthInv, Health!TypeOK, Health!Records, LocksOf, CallerStates
<1>8. \A d \in Callers : caller'[d].st # "probing"
  BY <1>2, <1>3 DEF HealthInv, LockFits
<1>9. Times' /\ ProbesSpaced'
  BY <1>1, <1>2, <1>8 DEF Times, ProbesSpaced, Health!ProbesSpaced
<1> QED
  BY <1>6, <1>7, <1>9 DEF HealthInv

LEMMA CancelKeeps ==
    ASSUME HealthInv, NEW c \in Callers, Health!Cancel(c)
    PROVE  HealthInv'
<1>1. caller \in [Callers -> CallerStates]
  BY HealthTypes
<1>2. /\ caller[c].st \in {"waiting", "probing"}
      /\ caller' = [caller EXCEPT ![c] = [st |-> "idle"]]
      /\ lock' = Leave(lock, c) /\ UNCHANGED <<now, cache, transport, last>>
  BY SameLock DEF Health!Cancel
<1>3. \A d \in Callers : caller'[d] = IF d = c THEN [st |-> "idle"] ELSE caller[d]
  BY <1>1, <1>2
<1>4. caller' \in [Callers -> CallerStates]
  BY <1>1, <1>2 DEF CallerStates
<1>5. lock' \in LocksOf(Callers) /\ LockFits'
  BY <1>2, <1>3, <1>4, LeaveKeepsFit
<1>6. Health!TypeOK'
  BY <1>2, <1>4, <1>5 DEF HealthInv, Health!TypeOK, LocksOf, CallerStates
<1>7. \A d \in Callers : caller'[d].st = "probing" => caller'[d] = caller[d] /\ lock'.holder = d
  BY <1>3, <1>5 DEF LockFits
<1>8. Times' /\ ProbesSpaced'
  BY <1>2, <1>7 DEF HealthInv, Times, ProbesSpaced, Health!ProbesSpaced
<1> QED
  BY <1>5, <1>6, <1>8 DEF HealthInv

LEMMA HealthInit == LifespanInit => HealthInv
<1> SUFFICES ASSUME LifespanInit PROVE HealthInv
  OBVIOUS
<1> USE LifespanAssumption DEF LifespanInit, Health!Init, Free
<1>1. lock = Free /\ << >> \in Seq(Callers)
  BY SameLock
<1>4. ToSet(lock.queue) = {} /\ IsInjective(lock.queue)
  BY <1>1 DEF ToSet, IsInjective
<1>2. Health!TypeOK
  BY <1>1 DEF Health!TypeOK, Health!Records
<1>3. LockFits /\ Times /\ ProbesSpaced
  BY <1>1, <1>4 DEF LockFits, Ordered, Times, ProbesSpaced, Health!ProbesSpaced, Health!Never
<1> QED
  BY <1>2, <1>3 DEF HealthInv

LEMMA HealthStep == HealthInv /\ [Next]_vars => HealthInv'
<1> SUFFICES ASSUME HealthInv, [Next]_vars PROVE HealthInv'
  OBVIOUS
<1>1. ASSUME NEW c \in Callers, Health!Ask(c) PROVE HealthInv'
  BY <1>1, AskKeeps
<1>2. ASSUME NEW c \in Callers, Health!Resume(c) PROVE HealthInv'
  <2>1. lock \in LocksOf(Callers) /\ Ordered(lock)
    BY HealthTypes
  <2>2. /\ lock.holder = c /\ c \notin ToSet(lock.queue)
        /\ \A d \in Callers : d # c => /\ caller[d].st # "probing"
                                       /\ d \in ToSet(lock.queue) <=> caller[d].st = "waiting"
    BY <1>2 DEF Health!Resume, HealthInv, LockFits
  <2> QED
    BY <1>2, <2>1, <2>2, LockedKeeps DEF Health!Resume
<1>3. ASSUME NEW c \in Callers, Health!Cancel(c) PROVE HealthInv'
  BY <1>3, CancelKeeps
<1>4. ASSUME NEW c \in Callers, NEW v \in Health!Verdicts, Health!Probed(c, v) PROVE HealthInv'
  BY <1>4, ProbedKeeps
<1>5. CASE Health!Tick
  <2>1. now \in Nat /\ MaxTime \in Nat /\ last.at \in Nat
    BY HealthTypes
  <2>2. \A c \in Callers : caller[c].st = "probing" => caller[c].since \in Nat
    BY <2>1, HealthTypes DEF CallerStates
  <2>3. now' = now + 1 /\ now' \in 0..MaxTime /\ UNCHANGED <<lock, cache, transport, caller, last>>
    BY <1>5, <2>1 DEF Health!Tick
  <2>4. Health!TypeOK'
    BY <2>3 DEF HealthInv, Health!TypeOK
  <2> QED
    BY <2>1, <2>2, <2>3, <2>4 DEF HealthInv, LockFits, Times, ProbesSpaced, Health!ProbesSpaced
<1>6. CASE ShutHealth
  <2>1. transport' \in {"none", "open", "closed"}
    BY <1>6 DEF ShutHealth, Health!Close, HealthInv, Health!TypeOK
  <2> QED
    BY <1>6, <2>1 DEF ShutHealth, Health!Close, HealthInv, Health!TypeOK, LockFits, Times,
                      ProbesSpaced, Health!ProbesSpaced
<1>7. CASE UNCHANGED healthVars
  BY <1>7 DEF healthVars, HealthInv, Health!TypeOK, LockFits, Times, ProbesSpaced,
              Health!ProbesSpaced
<1> QED
  BY <1>1, <1>2, <1>3, <1>4, <1>5, <1>6, <1>7
     DEF Next, vars, HealthRequest, HealthWork, Stop, ShutSessions, ShutNext, Down

-----------------------------------------------------------------------------
(***************************************************************************)
(* The theorems.                                                           *)
(***************************************************************************)
LEMMA SessionsInvariant == Spec => []SessionInv
BY SessionInit, SessionStep, PTL DEF Spec

LEMMA HealthInvariant == Spec => []HealthInv
BY HealthInit, HealthStep, PTL DEF Spec

\* Every variable of the lifespan, the sessions and the health probe keeps its type.
THEOREM LifespanTypeCorrect == Spec => []LifespanTypeOK
<1>1. SessionInv /\ HealthInv => LifespanTypeOK
  BY DEF SessionInv, Store, HealthInv, LifespanTypeOK
<1> QED
  BY <1>1, SessionsInvariant, HealthInvariant, PTL

\* auth.py: a transport is open exactly while a session, a login or the shutdown
\* is there to close it, for any number of logins and handlers.
THEOREM OwnedCorrect == Spec => []Owned
<1>1. SessionInv => Owned
  BY DEF SessionInv
<1> QED
  BY <1>1, SessionsInvariant, PTL

\* drop_expired(): a login probes the switch only after it has released what had
\* expired, whatever other handlers dropped meanwhile.
THEOREM SweptCorrect == Spec => []SweptFirst
<1>1. SessionInv => SweptFirst
  BY DEF SessionInv
<1> QED
  BY <1>1, SessionsInvariant, PTL

\* lifespan(): when it returns every transport of the process is closed.
THEOREM DownCorrect == Spec => []DownIsClosed
<1>1. SessionInv => DownIsClosed
  BY DEF SessionInv, DownIsClosed, Owned, Phases, Quiet
<1> QED
  BY <1>1, SessionsInvariant, PTL

\* health.py: one probe at a time, and none sooner than the time to live of the
\* verdict before it, for any number of callers.
THEOREM SpacedCorrect == Spec => []ProbesSpaced
<1>1. HealthInv => ProbesSpaced
  BY DEF HealthInv
<1> QED
  BY <1>1, HealthInvariant, PTL

\* An answer changes only in the steps that give one.
LEMMA FreshStep ==
    HealthInv /\ [Next]_vars =>
        [\A c \in Callers :
           (caller'[c].st = "answered" /\ caller'[c] # caller[c]) =>
               /\ caller'[c].verdict = last'.verdict
               /\ caller'[c].at - last'.at < Ttl]_(Health!healthVars)
<1> SUFFICES ASSUME HealthInv, [Next]_vars, NEW c \in Callers,
                    caller'[c].st = "answered", caller'[c] # caller[c]
             PROVE  /\ caller'[c].verdict = last'.verdict
                    /\ caller'[c].at - last'.at < Ttl
  OBVIOUS
<1>1. caller \in [Callers -> CallerStates] /\ now \in Nat
  BY HealthTypes
<1>2. ASSUME NEW d \in Callers, NEW l, Health!Locked(d, l)
      PROVE  /\ caller'[c].verdict = last'.verdict
             /\ caller'[c].at - last'.at < Ttl
  <2>1. CASE Health!Fresh /\ Health!Answer(d, cache.verdict) /\ last' = last
    <3>1. /\ c = d
          /\ caller'[c] = [st |-> "answered", verdict |-> cache.verdict, at |-> now]
      BY <1>1, <2>1 DEF Health!Answer
    <3> QED
      BY <2>1, <3>1 DEF Health!Fresh, HealthInv, Times
  <2>2. CASE caller' = [caller EXCEPT ![d] = [st |-> "probing", since |-> now]]
    BY <1>1, <2>2
  <2> QED
    BY <1>2, <2>1, <2>2 DEF Health!Locked
<1>3. ASSUME NEW d \in Callers, Health!Ask(d)
      PROVE  /\ caller'[c].verdict = last'.verdict
             /\ caller'[c].at - last'.at < Ttl
  <2>1. CASE caller' = [caller EXCEPT ![d] = [st |-> "waiting"]]
    BY <1>1, <2>1
  <2> QED
    BY <1>2, <1>3, <2>1 DEF Health!Ask
<1>4. ASSUME NEW d \in Callers, Health!Resume(d)
      PROVE  /\ caller'[c].verdict = last'.verdict
             /\ caller'[c].at - last'.at < Ttl
  BY <1>2, <1>4 DEF Health!Resume
<1>5. ASSUME NEW d \in Callers, NEW v \in Health!Verdicts, Health!Probed(d, v)
      PROVE  /\ caller'[c].verdict = last'.verdict
             /\ caller'[c].at - last'.at < Ttl
  <2>1. /\ last' = [verdict |-> v, at |-> now]
        /\ caller' = [caller EXCEPT ![d] = [st |-> "answered", verdict |-> v, at |-> now]]
    BY <1>5 DEF Health!Probed, Health!Answer
  <2>2. caller'[c] = [st |-> "answered", verdict |-> v, at |-> now]
    BY <1>1, <2>1
  <2> QED
    BY <1>1, <2>1, <2>2, LifespanAssumption
<1>6. ASSUME NEW d \in Callers, Health!Cancel(d) PROVE FALSE
  BY <1>1, <1>6 DEF Health!Cancel
<1>7. caller' # caller
  OBVIOUS
<1> QED
  BY <1>3, <1>4, <1>5, <1>6, <1>7
     DEF Next, vars, healthVars, HealthRequest, HealthWork, Health!Tick, Stop, ShutHealth,
         Health!Close, ShutSessions, ShutNext, Down

\* health.py: an answer is the verdict of the last probe that came to one, less
\* than the time to live before.
THEOREM FreshCorrect == Spec => AnswersFresh
BY HealthInvariant, FreshStep, PTL DEF Spec, AnswersFresh, Health!AnswersFresh

-----------------------------------------------------------------------------
(***************************************************************************)
(* Why every asker is answered: the lock is with someone whom the event    *)
(* loop resumes or whose probe ends, and each change of hands brings the   *)
(* others closer to it.                                                    *)
(***************************************************************************)
\* No answer, error or cancellation leaves the lock with somebody who is gone.
AskersAreBehindSomeone ==
    \A c \in Callers : caller[c].st = "waiting" =>
        \E h \in Callers : /\ lock.holder = h
                          /\ \/ caller[h].st = "waiting"     \* Resume
                             \/ caller[h].st = "probing"     \* Probed

\* A caller in the queue never falls back, and moves up when the lock changes hands.
MovesUp ==
    \A i \in DOMAIN lock.queue, j \in DOMAIN lock'.queue :
        lock'.queue[j] = lock.queue[i] => j <= i /\ (lock'.holder # lock.holder => j < i)

AskersMoveUp == [][MovesUp]_healthVars

\* health.py:62-75: as long as a handler of GET /health waits, the lock is held by one
\* that goes on by itself.
THEOREM AskersCorrect == Spec => []AskersAreBehindSomeone
<1>1. HealthInv => AskersAreBehindSomeone
  <2> SUFFICES ASSUME HealthInv, NEW c \in Callers, caller[c].st = "waiting"
               PROVE  \E h \in Callers : /\ lock.holder = h
                                        /\ caller[h].st \in {"waiting", "probing"}
    BY DEF AskersAreBehindSomeone
  <2>1. lock.holder = c \/ c \in ToSet(lock.queue)
    BY DEF HealthInv, LockFits
  <2>2. lock.holder # NoTask
    BY <2>1, LifespanAssumption DEF HealthInv, LockFits, Ordered, ToSet
  <2>3. lock.holder \in Callers
    BY <2>2, HealthTypes DEF LocksOf
  <2> QED
    BY <2>3 DEF HealthInv, LockFits
<1> QED
  BY <1>1, HealthInvariant, PTL

LEMMA MovesUpStep == HealthInv /\ [Next]_vars => [MovesUp]_healthVars
<1> SUFFICES ASSUME HealthInv, [Next]_vars,
                    NEW i \in DOMAIN lock.queue, NEW j \in DOMAIN lock'.queue,
                    lock'.queue[j] = lock.queue[i]
             PROVE  j <= i /\ (lock'.holder # lock.holder => j < i)
  BY DEF MovesUp
<1> DEFINE Up == j <= i /\ (lock'.holder # lock.holder => j < i)
           q == lock.queue
<1>1. /\ lock \in LocksOf(Callers) /\ IsInjective(q) /\ lock.holder # NoTask
      /\ q \in Seq(Callers) /\ Len(q) \in Nat /\ i \in 1..Len(q)
      /\ \A m, n \in 1..Len(q) : q[m] = q[n] => m = n
  BY HealthTypes, LenProperties DEF LocksOf, Ordered, IsInjective
<1>2. q[i] \in Callers /\ caller[q[i]].st = "waiting" /\ lock.holder # q[i]
  BY <1>1, ElementOfSeq DEF HealthInv, LockFits, ToSet
<1>3. ASSUME NEW c \in Callers, lock' = Leave(lock, c), lock.holder = c \/ c \in ToSet(q)
      PROVE  Up
  <2>1. j <= i /\ (lock.holder = c => j < i)
    BY <1>1, <1>3, LeaveMovesUp
  <2>2. lock.holder # c => lock'.holder = lock.holder
    BY <1>3 DEF Leave
  <2> QED
    BY <2>1, <2>2
<1>4. ASSUME lock' = lock PROVE Up
  BY <1>1, <1>4
<1>5. ASSUME NEW c \in Callers, Health!Ask(c) PROVE Up
  <2>1. lock' = Acquire(lock, c) /\ c # q[i]
    BY <1>1, <1>2, <1>5, SameLock DEF Health!Ask
  <2>2. j = i
    BY <1>1, <2>1, AcquireKeepsPlace
  <2>3. lock'.holder = lock.holder
    BY <1>1, <2>1 DEF Acquire
  <2> QED
    BY <1>1, <2>2, <2>3
<1>6. ASSUME NEW c \in Callers, Health!Resume(c) PROVE Up
  <2>1. lock.holder = c /\ (lock' = lock \/ lock' = Release(lock))
    BY <1>6, SameLock DEF Health!Resume, Health!Locked
  <2>2. lock' = lock \/ lock' = Leave(lock, c)
    BY <2>1 DEF Leave
  <2> QED
    BY <1>3, <1>4, <2>1, <2>2
<1>7. ASSUME NEW c \in Callers, NEW v, Health!Probed(c, v) PROVE Up
  <2>1. lock.holder = c /\ lock' = Release(lock)
    BY <1>7, SameLock DEF Health!Probed, HealthInv, LockFits
  <2>2. lock' = Leave(lock, c)
    BY <2>1 DEF Leave
  <2> QED
    BY <1>3, <2>1, <2>2
<1>8. ASSUME NEW c \in Callers, Health!Cancel(c) PROVE Up
  <2>1. lock' = Leave(lock, c) /\ (lock.holder = c \/ c \in ToSet(q))
    BY <1>8, SameLock DEF Health!Cancel, HealthInv, LockFits
  <2> QED
    BY <1>3, <2>1
<1>9. ASSUME Health!Tick \/ ShutHealth \/ UNCHANGED healthVars PROVE Up
  <2>1. lock' = lock
    BY <1>9 DEF Health!Tick, ShutHealth, Health!Close, healthVars
  <2> QED
    BY <1>4, <2>1
<1> HIDE DEF Up
<1>10. Up
  BY <1>5, <1>6, <1>7, <1>8, <1>9
     DEF Next, vars, HealthRequest, HealthWork, Stop, ShutSessions, ShutNext, Down
<1> QED
  BY <1>10 DEF Up

\* health.py:62-75: each verdict, and each cancellation of a probe, brings the callers
\* that queue closer to their answer.
THEOREM AskersMoveUpCorrect == Spec => AskersMoveUp
BY HealthInvariant, MovesUpStep, PTL DEF Spec, AskersMoveUp

-----------------------------------------------------------------------------
(***************************************************************************)
(* A session that is gone does not come back.                              *)
(***************************************************************************)
\* A transport that was closed by a logout, an expiry, a failed login or the
\* shutdown is never opened again, and no session stands on it.
GoneForGood ==
    [][\A l \in Logins : client[l] = "closed" => client'[l] = "closed" /\ l \notin store']_vars

\* A login has no transport before its sweep is over.
Unopened == \A l \in Logins : login[l].st \in {"idle", "sweep"} => client[l] = "none"

LEMMA ClosingKeepsUnopened ==
    ASSUME SessionInv, Unopened, NEW x \in store \cup entries,
           client' = [client EXCEPT ![x] = "closed"],
           \A l \in Logins : login'[l].st \in {"idle", "sweep"} => login[l].st \in {"idle", "sweep"}
    PROVE  Unopened'
BY DEF SessionInv, Store, TypeOK, Entered, Unopened

LEMMA UnopenedStep == SessionInv /\ Unopened /\ [Next]_vars => Unopened'
<1> SUFFICES ASSUME SessionInv, Unopened, [Next]_vars PROVE Unopened'
  OBVIOUS
<1>1. login \in [Logins -> LoginState] /\ client \in [Logins -> {"none", "open", "closed"}]
  BY DEF SessionInv, Store, TypeOK
<1>2. ASSUME NEW l \in Logins, NEW due, login[l].st \in {"idle", "sweep"}, Sweep(l, due)
      PROVE  Unopened'
  <2>1. CASE /\ \E x \in due \cap store : Drop(x)
             /\ login' = [login EXCEPT ![l] = [st |-> "sweep", due |-> due]]
    <3>1. PICK x \in store : client' = [client EXCEPT ![x] = "closed"]
      BY <2>1 DEF Drop
    <3>2. \A k \in Logins : login'[k].st \in {"idle", "sweep"} => login[k].st \in {"idle", "sweep"}
      BY <1>1, <1>2, <2>1
    <3> QED
      BY <3>1, <3>2, ClosingKeepsUnopened
  <2>2. CASE /\ client' = [client EXCEPT ![l] = "open"]
             /\ login' = [login EXCEPT ![l] = [st |-> "probe", due |-> due]]
    BY <1>1, <2>2 DEF Unopened
  <2> QED
    BY <1>2, <2>1, <2>2 DEF Sweep
<1>3. ASSUME NEW l \in Logins, LoginBegins(l) \/ SweepGoesOn(l) PROVE Unopened'
  BY <1>2, <1>3 DEF LoginBegins, SweepGoesOn
<1>4. ASSUME NEW l \in Logins, LoginSucceeds(l) \/ LoginFails(l) \/ LoginEnds(l)
      PROVE  Unopened'
  <2>1. \A k \in Logins : k # l => login'[k] = login[k] /\ client'[k] = client[k]
    BY <1>1, <1>4 DEF LoginSucceeds, LoginFails, LoginEnds
  <2>2. login'[l].st \in {"done", "release"}
    BY <1>1, <1>4 DEF LoginSucceeds, LoginFails, LoginEnds, LoginState
  <2> QED
    BY <2>1, <2>2 DEF Unopened
<1>5. ASSUME NEW t \in Tasks, NEW l \in Logins, Lookup(t, l) \/ Logout(t, l)
      PROVE  Unopened'
  <2>1. CASE UNCHANGED <<client, login>>
    BY <2>1 DEF Unopened
  <2>2. CASE Drop(l) /\ l \in store /\ UNCHANGED login
    BY <2>2, ClosingKeepsUnopened DEF Drop
  <2> QED
    BY <1>5, <2>1, <2>2 DEF Lookup, Logout
<1>6. ASSUME ShutSessions \/ ShutNext PROVE Unopened'
  <2>1. PICK x \in store \cup entries : client' = [client EXCEPT ![x] = "closed"]
    BY <1>6 DEF ShutSessions, ShutNext, CloseEntry
  <2>2. UNCHANGED login
    BY <1>6 DEF ShutSessions, ShutNext
  <2> QED
    BY <2>1, <2>2, ClosingKeepsUnopened
<1>7. CASE UNCHANGED <<client, login>>
  BY <1>7 DEF Unopened
<1> QED
  BY <1>3, <1>4, <1>5, <1>6, <1>7
     DEF Next, vars, sessionVars, Request, Work, Expire, TaskEnds, Stop, ShutHealth, Down

LEMMA GoneStep ==
    SessionInv /\ Unopened /\ [Next]_vars =>
        \A l \in Logins : client[l] = "closed" => client'[l] = "closed" /\ l \notin store'
<1> SUFFICES ASSUME SessionInv, Unopened, [Next]_vars, SessionInv',
                    NEW l \in Logins, client[l] = "closed"
             PROVE  client'[l] = "closed"
  BY SessionStep DEF SessionInv, Owned
<1>1. client \in [Logins -> {"none", "open", "closed"}]
  BY DEF SessionInv, Store, TypeOK
<1>2. ASSUME NEW k \in Logins, LoginBegins(k) \/ SweepGoesOn(k) PROVE client'[l] = "closed"
  <2>1. l # k
    BY <1>2 DEF LoginBegins, SweepGoesOn, Unopened
  <2> QED
    BY <1>1, <1>2, <2>1 DEF LoginBegins, SweepGoesOn, Sweep, Drop
<1>3. ASSUME NEW k \in Logins, LoginSucceeds(k) \/ LoginFails(k) \/ LoginEnds(k) \/ Expire(k)
      PROVE  client'[l] = "closed"
  BY <1>1, <1>3 DEF LoginSucceeds, LoginFails, LoginEnds, Expire
<1>4. ASSUME NEW t \in Tasks, NEW k \in Logins, Lookup(t, k) \/ Logout(t, k)
      PROVE  client'[l] = "closed"
  BY <1>1, <1>4 DEF Lookup, Logout, Drop
<1>5. ASSUME ShutSessions \/ ShutNext PROVE client'[l] = "closed"
  BY <1>1, <1>5 DEF ShutSessions, ShutNext, CloseEntry
<1>6. CASE UNCHANGED client
  BY <1>6
<1> QED
  BY <1>2, <1>3, <1>4, <1>5, <1>6
     DEF Next, vars, sessionVars, Request, Work, TaskEnds, Stop, ShutHealth, Down

\* auth.py: once a session was logged out, expired and dropped, or lost its login, no
\* interleaving of sweeps, lookups, logouts and the shutdown brings it back.
THEOREM GoneCorrect == Spec => GoneForGood
<1>1. LifespanInit => Unopened
  BY DEF LifespanInit, Init, Unopened
<1> QED
  BY <1>1, SessionsInvariant, UnopenedStep, GoneStep, PTL DEF Spec, GoneForGood
=============================================================================
