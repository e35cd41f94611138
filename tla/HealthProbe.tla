---------------------------- MODULE HealthProbe ----------------------------
(***************************************************************************)
(* app/api/health.py: HealthProbeCache.  Callers are the handlers of       *)
(* GET /api/v1/health.  Under one asyncio.Lock a caller answers from the   *)
(* cache or probes the switch; the callers that queued meanwhile find the  *)
(* cache fresh.  now is time.monotonic() in ticks, Ttl the ticks a verdict *)
(* stays fresh; MaxTime bounds the clock.                                  *)
(***************************************************************************)
EXTENDS FairLock, Naturals

CONSTANTS Callers, Ttl, MaxTime    \* assumptions: LifespanAssumption

VARIABLES
    now,        \* time.monotonic()
    lock,       \* _lock: who holds it, who waits (FIFO)
    cache,      \* _reachable and _checked_at
    transport,  \* _transport: none, open, or closed by aclose()
    caller,     \* caller[c]: what the handler c does
    last        \* history: the last probe that came to a verdict, and when

healthVars == <<now, lock, cache, transport, caller, last>>

Verdicts == {"ok", "unreachable"}
Never == [verdict |-> "none", at |-> 0]
Records == [verdict: Verdicts, at: 0..MaxTime] \cup {Never}

\* "answered" keeps the verdict given and when; "probing" when the probe began.
TypeOK ==
    /\ now \in 0..MaxTime
    /\ lock \in [holder: Callers \cup {NoTask}, queue: Seq(Callers)]
    /\ cache \in Records /\ last \in Records
    /\ transport \in {"none", "open", "closed"}
    /\ caller \in [Callers -> [st: {"idle", "waiting"}]
                              \cup [st: {"probing"}, since: 0..MaxTime]
                              \cup [st: {"answered"}, verdict: Verdicts, at: 0..MaxTime]]

Init ==
    /\ now = 0
    /\ lock = Free
    /\ cache = Never /\ last = Never
    /\ transport = "none"
    /\ caller = [c \in Callers |-> [st |-> "idle"]]

-----------------------------------------------------------------------------
\* Variant with a defect: an age is taken without asking for a verdict.
FreshUnchecked == now - cache.at < Ttl

Fresh == cache # Never /\ now - cache.at < Ttl

Answer(c, v) ==
    caller' = [caller EXCEPT ![c] = [st |-> "answered", verdict |-> v, at |-> now]]

\* reachable() past the lock l, up to its end or to the request to the switch.
\* The first probe opens the transport, which is kept.
Locked(c, l) ==
    /\ \/ /\ Fresh
          /\ Answer(c, cache.verdict)
          /\ lock' = Release(l)
          /\ UNCHANGED transport
       \/ /\ ~Fresh
          /\ caller' = [caller EXCEPT ![c] = [st |-> "probing", since |-> now]]
          /\ transport' = IF transport = "none" THEN "open" ELSE transport
          /\ lock' = l
    /\ UNCHANGED <<now, cache, last>>

\* GET /api/v1/health.
Ask(c) ==
    /\ caller[c].st \in {"idle", "answered"}
    /\ \/ /\ lock.holder = NoTask
          /\ Locked(c, Acquire(lock, c))
       \/ /\ lock.holder # NoTask
          /\ lock' = Acquire(lock, c)
          /\ caller' = [caller EXCEPT ![c] = [st |-> "waiting"]]
          /\ UNCHANGED <<now, cache, transport, last>>

\* The lock was handed to c and the event loop resumes it.
Resume(c) ==
    /\ lock.holder = c /\ caller[c].st = "waiting"
    /\ Locked(c, lock)

\* Variant with a defect: the age of a verdict counts from the start of its probe.
ProbedFromStart(c, v) ==
    /\ caller[c].st = "probing"
    /\ cache' = [verdict |-> v, at |-> caller[c].since]
    /\ last' = [verdict |-> v, at |-> now]
    /\ Answer(c, v)
    /\ lock' = Release(lock)
    /\ UNCHANGED <<now, transport>>

\* The probe ends: 200 is "ok", another status or any exception "unreachable".
Probed(c, v) ==
    /\ caller[c].st = "probing"
    /\ cache' = [verdict |-> v, at |-> now]
    /\ last' = cache'
    /\ Answer(c, v)
    /\ lock' = Release(lock)
    /\ UNCHANGED <<now, transport>>

\* Variants with a defect: a cancelled probe counts as "unreachable"; the lock
\* stays taken.
CancelCaches(c) ==
    /\ caller[c].st \in {"waiting", "probing"}
    /\ caller' = [caller EXCEPT ![c] = [st |-> "idle"]]
    /\ cache' = IF caller[c].st = "probing"
                THEN [verdict |-> "unreachable", at |-> now]
                ELSE cache
    /\ lock' = Leave(lock, c)
    /\ UNCHANGED <<now, transport, last>>

CancelKeepsLock(c) ==
    /\ caller[c].st \in {"waiting", "probing"}
    /\ caller' = [caller EXCEPT ![c] = [st |-> "idle"]]
    /\ UNCHANGED <<now, cache, lock, transport, last>>

\* The handler is cancelled: nothing is cached, the lock goes to the next.
Cancel(c) ==
    /\ caller[c].st \in {"waiting", "probing"}
    /\ caller' = [caller EXCEPT ![c] = [st |-> "idle"]]
    /\ lock' = Leave(lock, c)
    /\ UNCHANGED <<now, cache, transport, last>>

Tick ==
    /\ now < MaxTime
    /\ now' = now + 1
    /\ UNCHANGED <<lock, cache, transport, caller, last>>

\* aclose(): the lifespan closes the transport, if there is one.
Close ==
    /\ transport' = IF transport = "open" THEN "closed" ELSE transport
    /\ UNCHANGED <<now, lock, cache, caller, last>>

Quiet == \A c \in Callers : caller[c].st \in {"idle", "answered"}

\* The event loop resumes the holder of the lock; a probe ends, by the 15 s
\* timeout at the latest.
HealthFairness ==
    \A c \in Callers :
        /\ WF_healthVars(Resume(c))
        /\ WF_healthVars(\E v \in Verdicts : Probed(c, v))

-----------------------------------------------------------------------------
(***************************************************************************)
(* Properties.                                                             *)
(***************************************************************************)
\* A probe under way holds the lock, so there is one at a time, and it began no
\* sooner than Ttl after the end of the last one that came to a verdict: an
\* eager monitor cannot turn into as many requests to the switch.
ProbesSpaced ==
    \A c \in Callers : caller[c].st = "probing" =>
        /\ lock.holder = c
        /\ last = Never \/ caller[c].since - last.at >= Ttl

\* An answer is the verdict of the last probe that came to one, less than Ttl
\* before the answer: neither a cancelled probe nor a caller that queued for long
\* gets a verdict into the cache or out of it that no recent probe gave.
AnswersFresh ==
    [][\A c \in Callers :
         (caller'[c].st = "answered" /\ caller'[c] # caller[c]) =>
             /\ caller'[c].verdict = last'.verdict
             /\ caller'[c].at - last'.at < Ttl]_healthVars

\* Every handler that asks is answered or cancelled: no lock is left behind.
AskerAnswered == \A c \in Callers : caller[c].st = "waiting" ~> caller[c].st # "waiting"
=============================================================================
