------------------------------ MODULE Sessions ------------------------------
(***************************************************************************)
(* app/auth.py, app/deps.py and the login, logout and session lookup of    *)
(* app/api/auth.py: who owns a ProcurveTransport at each await.  A login   *)
(* makes one transport and one session, so Logins names the login handler, *)
(* its transport and its session id; each is used once.  Tasks are the     *)
(* handlers that come with a session cookie.  The process writes the entry *)
(* out of the store before it awaits the close of the transport; httpx     *)
(* takes a client for closed as soon as aclose() has begun.                *)
(***************************************************************************)
EXTENDS Naturals, FiniteSets

CONSTANTS Logins, Tasks

VARIABLES
    store,      \* SessionStore._entries: the sessions that have an entry
    expired,    \* the entries past expires_at
    client,     \* client[l]: the httpx client of the transport of l
    login,      \* login[l]: where the login handler l stands
    task        \* task[t]: what the handler t does

sessionVars == <<store, expired, client, login, task>>

\* due is the list drop_expired() made when the login began.
LoginState == [st: {"idle", "done"}]
              \cup [st: {"sweep", "probe", "release"}, due: SUBSET Logins]
TaskState == [st: {"idle"}] \cup [st: {"closing", "serving"}, id: Logins]

TypeOK ==
    /\ store \subseteq Logins /\ expired \subseteq Logins
    /\ client \in [Logins -> {"none", "open", "closed"}]
    /\ login \in [Logins -> LoginState]
    /\ task \in [Tasks -> TaskState]

Init ==
    /\ store = {} /\ expired = {}
    /\ client = [l \in Logins |-> "none"]
    /\ login = [l \in Logins |-> [st |-> "idle"]]
    /\ task = [t \in Tasks |-> [st |-> "idle"]]

-----------------------------------------------------------------------------
\* Variant with a defect: the entry leaves the store only after the close.
DropKeepsEntry(l) ==
    /\ client' = [client EXCEPT ![l] = "closed"]
    /\ UNCHANGED store

\* drop(), up to the await in __aexit__.
Drop(l) ==
    /\ store' = store \ {l}
    /\ client' = [client EXCEPT ![l] = "closed"]

-----------------------------------------------------------------------------
(***************************************************************************)
(* create_session().                                                       *)
(***************************************************************************)
\* Variant with a defect: the sweep ends at an entry someone else has dropped.
SweepGivesUp(l, due) ==
    \/ /\ ~(due \subseteq store)
       /\ client' = [client EXCEPT ![l] = "open"]
       /\ login' = [login EXCEPT ![l] = [st |-> "probe", due |-> due]]
       /\ UNCHANGED store
    \/ /\ due \subseteq store /\ due # {}
       /\ \E x \in due : Drop(x)
       /\ login' = [login EXCEPT ![l] = [st |-> "sweep", due |-> due]]
    \/ /\ due = {}
       /\ client' = [client EXCEPT ![l] = "open"]
       /\ login' = [login EXCEPT ![l] = [st |-> "probe", due |-> due]]
       /\ UNCHANGED store

\* The rest of drop_expired() up to the next close it awaits (an entry someone
\* else has dropped is passed over without one), and then the transport is
\* entered and the credentials are probed.
Sweep(l, due) ==
    \/ /\ \E x \in due \cap store : Drop(x)
       /\ login' = [login EXCEPT ![l] = [st |-> "sweep", due |-> due]]
    \/ /\ due \cap store = {}
       /\ client' = [client EXCEPT ![l] = "open"]
       /\ login' = [login EXCEPT ![l] = [st |-> "probe", due |-> due]]
       /\ UNCHANGED store

LoginBegins(l) ==
    /\ login[l].st = "idle"
    /\ Sweep(l, store \cap expired)
    /\ UNCHANGED <<expired, task>>

\* The close the sweep awaited is done.
SweepGoesOn(l) ==
    /\ login[l].st = "sweep"
    /\ Sweep(l, login[l].due)
    /\ UNCHANGED <<expired, task>>

\* The switch accepts the credentials: the entry is stored, the login answered.
LoginSucceeds(l) ==
    /\ login[l].st = "probe"
    /\ store' = store \cup {l}
    /\ login' = [login EXCEPT ![l] = [st |-> "done"]]
    /\ UNCHANGED <<expired, client, task>>

\* AuthError, TransportError or a cancellation: the transport is closed.
LoginFails(l) ==
    /\ login[l].st = "probe"
    /\ client' = [client EXCEPT ![l] = "closed"]
    /\ login' = [login EXCEPT ![l].st = "release"]
    /\ UNCHANGED <<store, expired, task>>

\* The close is done and the error goes on, or a close is cut by a cancellation.
LoginEnds(l) ==
    /\ login[l].st \in {"sweep", "release"}
    /\ login' = [login EXCEPT ![l] = [st |-> "done"]]
    /\ UNCHANGED <<store, expired, client, task>>

-----------------------------------------------------------------------------
(***************************************************************************)
(* Handlers with a session cookie, and the time to live of an entry.  A    *)
(* cookie whose signature is too old is refused before the store is asked: *)
(* such a handler changes nothing.                                         *)
(***************************************************************************)
Expire(l) ==
    /\ l \in store
    /\ expired' = expired \cup {l}
    /\ UNCHANGED <<store, client, login, task>>

\* get_session(): a live entry is served, an expired one dropped (and 401).
Lookup(t, l) ==
    /\ task[t].st = "idle" /\ l \in store
    /\ \/ /\ l \in expired
          /\ Drop(l)
          /\ task' = [task EXCEPT ![t] = [st |-> "closing", id |-> l]]
       \/ /\ l \notin expired
          /\ task' = [task EXCEPT ![t] = [st |-> "serving", id |-> l]]
          /\ UNCHANGED <<store, client>>
    /\ UNCHANGED <<expired, login>>

Logout(t, l) ==
    /\ task[t].st = "idle" /\ l \in store
    /\ Drop(l)
    /\ task' = [task EXCEPT ![t] = [st |-> "closing", id |-> l]]
    /\ UNCHANGED <<expired, login>>

\* The handler, or the close it awaits, is done.
TaskEnds(t) ==
    /\ task[t].st # "idle"
    /\ task' = [task EXCEPT ![t] = [st |-> "idle"]]
    /\ UNCHANGED <<store, expired, client, login>>

Quiet ==
    /\ \A l \in Logins : login[l].st \in {"idle", "done"}
    /\ \A t \in Tasks : task[t].st = "idle"

\* The event loop resumes a handler whose close is done; a probe ends, by the
\* 15 s timeout at the latest; so does every other handler.
SessionFairness ==
    /\ \A l \in Logins : /\ WF_sessionVars(SweepGoesOn(l))
                         /\ WF_sessionVars(LoginFails(l))
                         /\ WF_sessionVars(LoginEnds(l))
    /\ \A t \in Tasks : WF_sessionVars(TaskEnds(t))
=============================================================================
