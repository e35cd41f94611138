------------------------------ MODULE Lifespan ------------------------------
(***************************************************************************)
(* app/main.py: the lifespan of the application, over the session store    *)
(* and the health probe it owns.  The server (external) ends by taking no  *)
(* more requests, waiting for its handlers and then letting lifespan()     *)
(* close what the process keeps: the poll loop (PortTraffic, not here),    *)
(* the transport of the health probe, then those of the sessions.          *)
(***************************************************************************)
EXTENDS Sessions, FairLock

CONSTANTS Callers, Ttl, MaxTime

ASSUME LifespanAssumption == NoTask \notin Callers /\ Ttl \in Nat \ {0} /\ MaxTime \in Nat

VARIABLES
    now, lock, cache, transport, caller, last,  \* see HealthProbe
    phase,      \* up; draining; health: aclose() of the probe; sessions; down
    entries     \* close_all(): the entries it has still to close

Health == INSTANCE HealthProbe

healthVars == <<now, lock, cache, transport, caller, last>>

vars == <<sessionVars, healthVars, phase, entries>>

LifespanTypeOK ==
    /\ TypeOK
    /\ Health!TypeOK
    /\ phase \in {"up", "draining", "health", "sessions", "down"}
    /\ entries \subseteq Logins

LifespanInit ==
    /\ Init
    /\ Health!Init
    /\ phase = "up"
    /\ entries = {}

-----------------------------------------------------------------------------
\* Requests that arrive.
Request ==
    \/ \E l \in Logins : LoginBegins(l)
    \/ \E t \in Tasks, l \in Logins : Lookup(t, l) \/ Logout(t, l)

\* What handlers go on to do.
Work ==
    \/ \E l \in Logins : \/ SweepGoesOn(l) \/ LoginSucceeds(l) \/ LoginFails(l)
                         \/ LoginEnds(l) \/ Expire(l)
    \/ \E t \in Tasks : TaskEnds(t)

HealthRequest == \E c \in Callers : Health!Ask(c)

HealthWork ==
    \/ \E c \in Callers : Health!Resume(c) \/ Health!Cancel(c)
    \/ \E c \in Callers, v \in Health!Verdicts : Health!Probed(c, v)
    \/ Health!Tick

\* The server is told to stop.
Stop ==
    /\ phase = "up"
    /\ phase' = "draining"
    /\ UNCHANGED <<sessionVars, healthVars, entries>>

\* Every handler has ended: lifespan() goes on, and closes the health probe.
ShutHealth ==
    /\ phase = "draining"
    /\ Quiet /\ Health!Quiet
    /\ Health!Close
    /\ phase' = "health"
    /\ UNCHANGED <<sessionVars, entries>>

\* Variant with a defect: nothing but the first entry is closed.
CloseFirst(left) ==
    \E x \in left : /\ client' = [client EXCEPT ![x] = "closed"]
                    /\ entries' = {}

\* close_all() up to the next close it awaits.
CloseEntry(left) ==
    \E x \in left : /\ client' = [client EXCEPT ![x] = "closed"]
                    /\ entries' = left \ {x}

\* The entries are listed, the store is emptied, the first client closed.
ShutSessions ==
    /\ phase = "health"
    /\ store # {}
    /\ store' = {}
    /\ CloseEntry(store)
    /\ phase' = "sessions"
    /\ UNCHANGED <<expired, login, task, healthVars>>

ShutNext ==
    /\ phase = "sessions"
    /\ CloseEntry(entries)
    /\ UNCHANGED <<store, expired, login, task, healthVars, phase>>

\* lifespan() returns.
Down ==
    /\ \/ phase = "health" /\ store = {}
       \/ phase = "sessions" /\ entries = {}
    /\ phase' = "down"
    /\ UNCHANGED <<sessionVars, healthVars, entries>>

Next ==
    \/ phase = "up" /\ Request /\ UNCHANGED <<healthVars, phase, entries>>
    \/ phase \in {"up", "draining"} /\ Work /\ UNCHANGED <<healthVars, phase, entries>>
    \/ phase = "up" /\ HealthRequest /\ UNCHANGED <<sessionVars, phase, entries>>
    \/ phase \in {"up", "draining"} /\ HealthWork /\ UNCHANGED <<sessionVars, phase, entries>>
    \/ Stop \/ ShutHealth \/ ShutSessions \/ ShutNext \/ Down

LifespanFairness ==
    /\ SessionFairness
    /\ Health!HealthFairness
    /\ WF_vars(ShutHealth) /\ WF_vars(ShutSessions) /\ WF_vars(ShutNext) /\ WF_vars(Down)

Spec == LifespanInit /\ [][Next]_vars
FairSpec == Spec /\ LifespanFairness

-----------------------------------------------------------------------------
(***************************************************************************)
(* Properties.                                                             *)
(***************************************************************************)
\* A transport is open exactly when someone will close it: it is in the store,
\* where every lookup finds it usable, in the hands of a login that probes, or in
\* the list close_all() works on.  No failure, cancellation or race of a sweep
\* with a logout or a lookup leaves one behind or stores a closed one.
Owned ==
    \A l \in Logins :
        client[l] = "open" <=> \/ l \in store \cup entries
                               \/ login[l].st = "probe"

\* A login that probes the switch has released every session that had expired
\* when it began, whoever else was dropping entries during its sweep.
SweptFirst ==
    \A l \in Logins : login[l].st = "probe" =>
        \A x \in login[l].due : client[x] = "closed" /\ x \notin store

\* Once the server is told to stop the lifespan returns, and nothing is left open.
ShutdownCloses ==
    phase = "draining" ~> /\ phase = "down"
                          /\ transport # "open"
                          /\ \A l \in Logins : client[l] # "open"

\* The safety half of it: lifespan() does not return before all is closed.
DownIsClosed ==
    phase = "down" => transport # "open" /\ \A l \in Logins : client[l] # "open"

\* The health probe keeps its promises in the whole application.
ProbesSpaced == Health!ProbesSpaced
AnswersFresh == Health!AnswersFresh
AskerAnswered == Health!AskerAnswered
=============================================================================
