------------------------------- MODULE Console -------------------------------
(***************************************************************************)
(* One browser tab: the routes and their guard (routes/, main.tsx, the top *)
(* bar, the login screen), and the query cache that the pages of Hooks     *)
(* read and invalidate.  The backend is external: it keeps the session     *)
(* and, for each query, the writes its answer would show.                  *)
(* Keys are the queries, Mutations the mutation hooks and Routes the routes*)
(* that are tracked, Writes the mutations that are sent, each once.  floor *)
(* is a history variable: the writes whose acknowledgement the cache has   *)
(* to honour.                                                              *)
(***************************************************************************)
EXTENDS Hooks, QueryCache, Document

CONSTANTS Keys, Mutations, Routes

ASSUME ConsoleAssumption ==
    /\ Routes \subseteq Pages
    /\ Mutations \subseteq AllHooks
    \* The hooks' table: what a hook changes it invalidates.
    /\ \A hook \in Mutations : \A k \in Keys \cap hook.own : Invalidated(hook, k)

VARIABLES
    page,       \* the route: login, or one of Pages
    session,    \* at the backend: live or ended
    whoami,     \* the cache has an answer for whoami
    leaving,    \* a logout is under way
    shows,      \* shows[k]: the writes that an answer for k would show
    entry,      \* entry[k]: see QueryCache
    write,      \* write[w]: a mutation, and who still waits for it
    floor

routeVars == <<page, session, whoami, leaving>>
tabVars == <<routeVars, visible>>
cacheVars == <<shows, entry, write, floor>>
vars == <<tabVars, cacheVars>>

\* The card that sent it is mounted; only the hook's callbacks are left; the
\* document is gone.
Waiters == {"card", "hook", "nobody"}
WriteState == [st: {"idle", "done"}] \cup [st: {"sent", "applied"}, hook: Mutations, by: Waiters]

TypeOK ==
    /\ page \in Pages \cup {"login"}
    /\ session \in {"live", "ended"}
    /\ whoami \in BOOLEAN /\ leaving \in BOOLEAN
    /\ shows \in [Keys -> SUBSET Writes]
    /\ entry \in [Keys -> Entries]
    /\ \A k \in Keys : entry[k].fetch = "read" \/ entry[k].got = {}
    /\ write \in [Writes -> WriteState]
    /\ floor \in [Keys -> SUBSET Writes]
    /\ visible \in BOOLEAN

Init ==
    /\ page = "login" /\ session = "ended"
    /\ whoami = FALSE /\ leaving = FALSE
    /\ shows = [k \in Keys |-> {}]
    /\ entry = [k \in Keys |-> Empty]
    /\ write = [w \in Writes |-> [st |-> "idle"]]
    /\ floor = [k \in Keys |-> {}]
    /\ visible = TRUE

Active(k) == k \in Reads(page)
Pending(w) == write[w].st \in {"sent", "applied"}

-----------------------------------------------------------------------------
(***************************************************************************)
(* Routes.                                                                 *)
(***************************************************************************)
\* The page is left: its cards unmount.
LeaveCards(by) ==
    write' = [w \in Writes |-> IF Pending(w) /\ write[w].by # "nobody"
                               THEN [write[w] EXCEPT !.by = by]
                               ELSE write[w]]

\* The route p is rendered: its queries mount, but for those mounted already, and
\* a page that stays keeps its cards.
Render(p) ==
    /\ page' = p
    /\ entry' = [k \in Keys |-> IF k \in Reads(p) \ Reads(page) THEN Mount(entry[k]) ELSE entry[k]]
    /\ IF p = page THEN UNCHANGED write ELSE LeaveCards("hook")

\* window.location.assign: a new document, at the login page.
Bounce ==
    /\ page' = "login" /\ whoami' = FALSE /\ leaving' = FALSE
    /\ entry' = [k \in Keys |-> Empty]
    /\ LeaveCards("nobody")

\* A link, the history or a preload asks for a route.  ensureQueryData is content
\* with any cached answer; a 401 is seen by the query cache, which bounces.  The
\* route of a port leads from the status page to the status page.
Navigate(p) ==
    /\ \/ /\ whoami \/ session = "live"
          /\ whoami' = TRUE
          /\ Render(p)
          /\ UNCHANGED leaving
       \/ /\ ~whoami /\ session = "ended"
          /\ Bounce
    /\ UNCHANGED <<visible, session, shows, floor>>

\* The history leads to the login page, which has no guard.
BackToLogin ==
    /\ page # "login"
    /\ leaving' = FALSE
    /\ Render("login")
    /\ UNCHANGED <<visible, session, whoami, shows, floor>>

\* useLogin, and its push of the route that was asked for, guard included.
Login(p) ==
    /\ page = "login"
    /\ session' = "live" /\ whoami' = TRUE
    /\ Render(p)
    /\ UNCHANGED <<visible, leaving, shows, floor>>

\* handleLogout: the backend ends the session, whatever it was.
Logout ==
    /\ page # "login" /\ ~leaving
    /\ session' = "ended" /\ leaving' = TRUE
    /\ UNCHANGED <<page, whoami, visible, cacheVars>>

\* Its answer: a soft navigation, which keeps the cache.
LoggedOut ==
    /\ leaving
    /\ leaving' = FALSE
    /\ Render("login")
    /\ UNCHANGED <<visible, session, whoami, shows, floor>>

\* Its answer is lost.
LogoutFails ==
    /\ leaving
    /\ leaving' = FALSE
    /\ UNCHANGED <<page, session, whoami, visible, cacheVars>>

Expire ==
    /\ session = "live"
    /\ session' = "ended"
    /\ UNCHANGED <<page, whoami, leaving, visible, cacheVars>>

\* gcTime without an observer: the security page has one.
ForgetWhoami ==
    /\ whoami /\ page # "security"
    /\ whoami' = FALSE
    /\ UNCHANGED <<page, session, leaving, visible, cacheVars>>

-----------------------------------------------------------------------------
(***************************************************************************)
(* Queries.                                                                *)
(***************************************************************************)
SetEntry(k, e) ==
    /\ entry' = [entry EXCEPT ![k] = e]
    /\ UNCHANGED <<tabVars, shows, write, floor>>

\* staleTime, and gcTime without an observer.
Age(k)    == entry[k].loaded /\ ~entry[k].stale /\ SetEntry(k, [entry[k] EXCEPT !.stale = TRUE])
Forget(k) == ~Active(k) /\ ~InFlight(entry[k]) /\ entry[k] # Empty /\ SetEntry(k, Empty)

\* refetchInterval: only in a tab that is seen.
Poll(k) == k \in Polls(page) /\ visible /\ ~InFlight(entry[k]) /\ SetEntry(k, Fetch(entry[k]))

\* The refresh button of a page, or the retry button of one that failed to load.
Refresh(k) == Active(k) /\ ~InFlight(entry[k]) /\ SetEntry(k, Refetch(entry[k]))

\* The backend, asked by a fetch.
Read(k) ==
    /\ entry[k].fetch = "sent" /\ session = "live"
    /\ SetEntry(k, [entry[k] EXCEPT !.fetch = "read", !.got = shows[k]])

Deny(k) ==
    /\ entry[k].fetch = "sent" /\ session = "ended"
    /\ SetEntry(k, [entry[k] EXCEPT !.fetch = "denied"])

\* What comes of it: the data, a 401, or an error of the network or the switch.
Answered(k) == entry[k].fetch = "read" /\ SetEntry(k, Land(entry[k]))

\* Variant with a defect: no onError of the query cache.
DeniedQuietly(k) == entry[k].fetch = "denied" /\ SetEntry(k, Fail(entry[k]))

Denied(k) ==
    /\ entry[k].fetch = "denied"
    /\ IF page = "login"
       THEN SetEntry(k, Fail(entry[k]))
       ELSE Bounce /\ UNCHANGED <<visible, session, shows, floor>>

FetchFails(k) == InFlight(entry[k]) /\ SetEntry(k, Fail(entry[k]))

-----------------------------------------------------------------------------
(***************************************************************************)
(* Mutations.                                                              *)
(***************************************************************************)
\* A card sends the write of one of its hooks, unless it waits for one already.
Save(w, hook) ==
    /\ write[w].st = "idle"
    /\ page = hook.page
    /\ \A k \in hook.needs \cap Keys : entry[k].loaded
    /\ \A v \in Writes : Pending(v) => ~(write[v].hook = hook /\ write[v].by = "card")
    /\ write' = [write EXCEPT ![w] = [st |-> "sent", hook |-> hook, by |-> "card"]]
    /\ UNCHANGED <<tabVars, shows, entry, floor>>

\* The backend carries it out.
Apply(w) ==
    /\ write[w].st = "sent" /\ session = "live"
    /\ write' = [write EXCEPT ![w].st = "applied"]
    /\ shows' = [k \in Keys |-> IF k \in write[w].hook.own THEN shows[k] \cup {w} ELSE shows[k]]
    /\ UNCHANGED <<tabVars, entry, floor>>

\* An invalidation that leaves no older answer to come: it restarts a fetch of a
\* query with data on the screen, and joins any other.
Honoured(k) == ~InFlight(entry[k]) \/ (Active(k) /\ entry[k].loaded)

\* Variant with a defect: onSuccess given to mutate() instead of to the hook.
InvalidatedByCard(w, k) == write[w].by = "card" /\ Invalidated(write[w].hook, k)

InvalidatedBy(w, k) == Invalidated(write[w].hook, k)

\* onSuccess of the hook, whether or not the card is still there.  (The cards that
\* refetch as well restart the same fetches.)
Ack(w) ==
    /\ write[w].st = "applied" /\ write[w].by # "nobody"
    /\ write' = [write EXCEPT ![w] = [st |-> "done"]]
    /\ entry' = [k \in Keys |-> IF InvalidatedBy(w, k)
                                THEN Invalidate(entry[k], Active(k))
                                ELSE entry[k]]
    /\ floor' = [k \in Keys |-> IF k \in write[w].hook.own /\ Honoured(k)
                                THEN floor[k] \cup {w}
                                ELSE floor[k]]
    /\ UNCHANGED <<tabVars, shows>>

\* An error, from before or after it was applied, invalidates nothing; a write of a
\* document that is gone has no callback.
Nak(w) ==
    /\ Pending(w)
    /\ write' = [write EXCEPT ![w] = [st |-> "done"]]
    /\ UNCHANGED <<tabVars, shows, entry, floor>>

-----------------------------------------------------------------------------
\* The browser hides and shows the tab.
SwitchTabs == (Hidden \/ Shown) /\ UNCHANGED <<routeVars, cacheVars>>

Next ==
    \/ \E p \in Routes : Navigate(p) \/ Login(p)
    \/ BackToLogin \/ Logout \/ LoggedOut \/ LogoutFails \/ Expire \/ ForgetWhoami
    \/ \E k \in Keys :
          \/ Age(k) \/ Forget(k) \/ Poll(k) \/ Refresh(k)
          \/ Read(k) \/ Deny(k) \/ Answered(k) \/ Denied(k) \/ FetchFails(k)
    \/ \E w \in Writes :
          \/ \E hook \in Mutations : Save(w, hook)
          \/ Apply(w) \/ Ack(w) \/ Nak(w)
    \/ SwitchTabs

Spec == Init /\ [][Next]_vars

\* The interval timer of a tab that is seen; a backend that answers (its own timeouts
\* end what it waits for); a network that does not fail every request.
Fairness ==
    \A k \in Keys : /\ WF_vars(Poll(k)) /\ WF_vars(Answered(k))
                   /\ SF_vars(Deny(k)) /\ SF_vars(Denied(k))

FairSpec == Spec /\ Fairness

-----------------------------------------------------------------------------
(***************************************************************************)
(* Properties.                                                             *)
(***************************************************************************)
\* The hooks' invalidations: what the cache calls fresh shows every write that was
\* acknowledged to it, and what is on the screen without one of them is on its way,
\* or the page says that it failed.  Not for an answer that Honoured excludes.
ReadYourWrites ==
    \A k \in Keys :
        /\ entry[k].loaded /\ ~entry[k].stale => floor[k] \subseteq entry[k].data
        /\ Active(k) /\ entry[k].loaded /\ ~(floor[k] \subseteq entry[k].data)
              => InFlight(entry[k]) \/ entry[k].fetch = "failed"

\* main.tsx: "the dashboard polls hit this within seconds of expiry": on a page that
\* polls, the end of the session leads to the login page, or out of its sight.
ExpiryNoticed ==
    (session = "ended" /\ visible /\ Polls(page) \cap Keys # {})
        ~> (page = "login" \/ ~visible \/ Polls(page) \cap Keys = {})
=============================================================================
