---------------------------- MODULE ConsoleProofs ----------------------------
(***************************************************************************)
(* Theorems about a tab, for any queries, hooks, routes, writes and        *)
(* sockets: the hook of the live chart keeps one live socket at most, and  *)
(* only for a chart that is seen; what the cache calls fresh shows the     *)
(* writes that were acknowledged to it; and the types of both.             *)
(***************************************************************************)
EXTENDS Tab, TLAPS

-----------------------------------------------------------------------------
(***************************************************************************)
(* The live chart.                                                         *)
(***************************************************************************)
LiveInv == LiveTypeOK /\ OneLiveSocket /\ PillIsBacked /\ (connected => chart)

\* What closing leaves of the sockets: none alive, and none of them fewer.
LEMMA Closing ==
    ASSUME LiveTypeOK, OneLiveSocket
    PROVE  /\ CloseSocket \in [Sockets -> {"new", "connecting", "open", "closing", "closed"}]
           /\ \A s \in Sockets : CloseSocket[s] \notin {"connecting", "open"}
           /\ \A s \in Sockets : sock[s] \in {"open", "closing"} => CloseSocket[s] = "closing"
  BY LiveAssumption DEF LiveTypeOK, OneLiveSocket, CloseSocket, Alive

\* An effect that runs over dead sockets keeps one alive at most.
LEMMA EffectKeeps ==
    ASSUME LiveTypeOK,
           NEW after \in [Sockets -> {"new", "connecting", "open", "closing", "closed"}],
           \A s \in Sockets : after[s] \notin {"connecting", "open"},
           EffectRuns(after), chart', visible' = visible
    PROVE  /\ sock' \in [Sockets -> {"new", "connecting", "open", "closing", "closed"}]
           /\ ws' \in Sockets \cup {NoSocket}
           /\ mine' \subseteq Sockets
           /\ OneLiveSocket'
<1>1. CASE visible
  BY <1>1, LiveAssumption DEF EffectRuns, OpenSocket, OneLiveSocket, Alive
<1>2. CASE ~visible
  BY <1>2 DEF EffectRuns, OneLiveSocket, Alive
<1> QED
  BY <1>1, <1>2

\* The chart's invariant is kept by every step of the hook.
LEMMA LiveStep ==
    ASSUME LiveInv, [LiveNext]_liveVars
    PROVE  LiveInv'
<1> USE DEF LiveInv
<1>1. CASE MountChart
  <2>1. \A s \in Sockets : sock[s] \notin {"connecting", "open"}
    BY <1>1 DEF MountChart, OneLiveSocket, Alive
  <2> QED
    BY <1>1, <2>1, EffectKeeps DEF MountChart, LiveTypeOK, PillIsBacked
<1>2. CASE Reconnect
  BY <1>2, Closing, EffectKeeps DEF Reconnect, LiveTypeOK, PillIsBacked
<1>3. CASE Hide
  <2>1. CASE chart
    BY <1>3, <2>1, Closing DEF Hide, Hidden, LiveTypeOK, OneLiveSocket, PillIsBacked, Alive
  <2>2. CASE ~chart
    BY <1>3, <2>2 DEF Hide, Hidden, LiveTypeOK, OneLiveSocket, PillIsBacked, Alive
  <2> QED
    BY <2>1, <2>2
<1>4. CASE Show
  <2>1. CASE chart /\ (ws = NoSocket \/ sock[ws] \in {"closing", "closed"})
    <3>1. \A s \in Sockets : sock[s] \notin {"connecting", "open"}
      BY <2>1, LiveAssumption DEF LiveTypeOK, OneLiveSocket, Alive
    <3>2. PICK s \in Sockets :
            sock[s] = "new" /\ sock' = [sock EXCEPT ![s] = "connecting"] /\ ws' = s
      BY <1>4, <2>1 DEF Show, Shown, OpenSocket
    <3>3. /\ mine' = mine \cup {s} /\ visible' /\ chart' = chart /\ connected' = connected
          /\ visible' \in BOOLEAN
      BY <1>4, <2>1, <3>2 DEF Show, Shown
    <3>4. OneLiveSocket'
      BY <2>1, <3>1, <3>2, <3>3 DEF LiveTypeOK, OneLiveSocket, Alive
    <3>5. PillIsBacked'
      BY <3>2, <3>3 DEF LiveTypeOK, PillIsBacked
    <3> QED
      BY <2>1, <3>2, <3>3, <3>4, <3>5 DEF LiveTypeOK
  <2>2. CASE ~(chart /\ (ws = NoSocket \/ sock[ws] \in {"closing", "closed"}))
    BY <1>4, <2>2 DEF Show, Shown, LiveTypeOK, OneLiveSocket, PillIsBacked, Alive
  <2> QED
    BY <2>1, <2>2
<1>5. ASSUME NEW s \in Sockets, SocketOpens(s) PROVE LiveInv'
  <2>1. LiveTypeOK' /\ OneLiveSocket'
    BY <1>5 DEF SocketOpens, LiveTypeOK, OneLiveSocket, Alive
  <2>2. chart
    BY <1>5 DEF SocketOpens, OneLiveSocket, Alive
  <2>3. PillIsBacked'
    BY <1>5 DEF SocketOpens, LiveTypeOK, PillIsBacked
  <2> QED
    BY <1>5, <2>1, <2>2, <2>3 DEF SocketOpens
<1>6. ASSUME NEW s \in Sockets, SocketCloses(s) PROVE LiveInv'
  <2>1. LiveTypeOK' /\ OneLiveSocket'
    BY <1>6 DEF SocketCloses, LiveTypeOK, OneLiveSocket, Alive
  <2>2. PillIsBacked'
    BY <1>6 DEF SocketCloses, LiveTypeOK, PillIsBacked
  <2> QED
    BY <1>6, <2>1, <2>2 DEF SocketCloses
<1>7. CASE UnmountChart
  BY <1>7, Closing DEF UnmountChart, LiveTypeOK, OneLiveSocket, PillIsBacked, Alive
<1>8. CASE UNCHANGED liveVars
  BY <1>8 DEF liveVars, LiveTypeOK, OneLiveSocket, PillIsBacked, Alive
<1> QED
  BY <1>1, <1>2, <1>3, <1>4, <1>5, <1>6, <1>7, <1>8 DEF LiveNext

\* The hook of the live chart starts with no socket.
LEMMA LiveStart == LiveInit => LiveInv
  BY LiveAssumption DEF LiveInit, LiveInv, LiveTypeOK, OneLiveSocket, PillIsBacked, Alive

\* useLivePortTraffic: through every order of mount, unmount, hide, show, reconnect
\* and socket events, one live socket at most, and none that nobody looks at; the
\* pill says Live over no socket whose end it has heard of.
THEOREM LiveCorrect == LiveSpec => [](OneLiveSocket /\ PillIsBacked)
<1>1. LiveInv /\ [LiveNext]_liveVars => LiveInv'
  BY LiveStep
<1>2. LiveInv => OneLiveSocket /\ PillIsBacked
  BY DEF LiveInv
<1> QED
  BY LiveStart, <1>1, <1>2, PTL DEF LiveSpec

\* useLivePortTraffic.ts:122-130: the pill says Live only over a socket whose end
\* has not been heard of.
THEOREM PillCorrect == LiveSpec => []PillIsBacked
BY LiveCorrect, PTL

-----------------------------------------------------------------------------
(***************************************************************************)
(* The types: of a cache entry, then of the tab.                           *)
(***************************************************************************)
EntryOK(e) == e \in Entries /\ (e.fetch = "read" \/ e.got = {})

\* What TanStack Query does to an entry keeps its type.
LEMMA EntryKept ==
    ASSUME NEW e, EntryOK(e)
    PROVE  /\ EntryOK(Empty) /\ EntryOK(Fail(e)) /\ EntryOK(Land(e))
           /\ EntryOK(Fetch(e)) /\ EntryOK(Refetch(e)) /\ EntryOK(Mount(e))
           /\ \A active : EntryOK(Invalidate(e, active))
<1>1. EntryOK(Empty) /\ EntryOK(Fail(e)) /\ EntryOK(Land(e)) /\ EntryOK(Restart(e))
  BY DEF EntryOK, Entries, Empty, Fail, Land, Restart
<1>2. EntryOK(Fetch(e)) /\ EntryOK(Refetch(e)) /\ EntryOK(Mount(e))
  BY <1>1 DEF Fetch, Refetch, Mount
<1>3. ASSUME NEW active PROVE EntryOK(Invalidate(e, active))
  <2> DEFINE f == [e EXCEPT !.stale = TRUE]
  <2>1. EntryOK(f) /\ EntryOK(Restart(f))
    BY DEF EntryOK, Entries, Restart
  <2> QED
    BY <2>1 DEF Invalidate, Refetch
<1> QED
  BY <1>1, <1>2, <1>3

TabTypes ==
    /\ page \in Pages \cup {"login"}
    /\ session \in {"live", "ended"}
    /\ whoami \in BOOLEAN /\ leaving \in BOOLEAN
    /\ shows \in [Keys -> SUBSET Writes]
    /\ floor \in [Keys -> SUBSET Writes]
    /\ write \in [Writes -> WriteState]
    /\ visible \in BOOLEAN

EntryTypes ==
    /\ entry \in [Keys -> Entries]
    /\ \A k \in Keys : EntryOK(entry[k])

\* TypeOK in the parts that different steps disturb.
LEMMA TypeParts == TypeOK <=> TabTypes /\ EntryTypes
  BY DEF TypeOK, TabTypes, EntryTypes, EntryOK

\* Leaving the cards keeps the type of the writes.
LEMMA LeaveKept ==
    ASSUME TabTypes, NEW by \in Waiters, LeaveCards(by)
    PROVE  write' \in [Writes -> WriteState]
<1>1. ASSUME NEW w \in Writes, Pending(w) PROVE [write[w] EXCEPT !.by = by] \in WriteState
  BY <1>1 DEF TabTypes, WriteState, Pending
<1> QED
  BY <1>1 DEF LeaveCards, TabTypes

\* A route that is rendered keeps the types.
LEMMA RenderKept ==
    ASSUME TabTypes, EntryTypes, NEW p \in Pages \cup {"login"}, Render(p)
    PROVE  /\ page' \in Pages \cup {"login"}
           /\ write' \in [Writes -> WriteState]
           /\ EntryTypes'
<1>1. write' \in [Writes -> WriteState]
  BY LeaveKept DEF Render, Waiters, TabTypes
<1>2. \A k \in Keys : EntryOK(Mount(entry[k])) /\ EntryOK(entry[k])
  BY EntryKept DEF EntryTypes
<1>3. EntryTypes'
  BY <1>2 DEF Render, EntryTypes, EntryOK
<1> QED
  BY <1>1, <1>3 DEF Render

\* And so does a new document.
LEMMA BounceKept ==
    ASSUME TabTypes, EntryTypes, Bounce, UNCHANGED <<visible, session, shows, floor>>
    PROVE  TabTypes' /\ EntryTypes'
<1>1. write' \in [Writes -> WriteState]
  BY LeaveKept DEF Bounce, Waiters
<1>2. EntryOK(Empty)
  BY DEF EntryOK, Entries, Empty
<1>3. EntryTypes'
  BY <1>2 DEF Bounce, EntryTypes, EntryOK
<1> QED
  BY <1>1, <1>3 DEF Bounce, TabTypes

\* A step of one entry.
LEMMA SetEntryKept ==
    ASSUME TabTypes, EntryTypes, NEW k \in Keys, NEW e, EntryOK(e), SetEntry(k, e)
    PROVE  TabTypes' /\ EntryTypes'
  BY DEF SetEntry, tabVars, routeVars, TabTypes, EntryTypes, EntryOK

-----------------------------------------------------------------------------
(***************************************************************************)
(* What the cache owes to F, the writes acknowledged to it: fresh data,    *)
(* and the answer it waits for, show F; on the screen, what does not show  *)
(* F is on its way or failed.                                              *)
(***************************************************************************)
Fresh(e, F) ==
    /\ e.loaded /\ ~e.stale => F \subseteq e.data
    /\ e.fetch = "read" => F \subseteq e.got

Coming(e, F) ==
    e.loaded /\ ~(F \subseteq e.data) => InFlight(e) \/ e.fetch = "failed"

Good(k, e) == Fresh(e, floor[k]) /\ (Active(k) => Coming(e, floor[k]))

\* TanStack Query keeps what is owed, whatever happens to the entry.
LEMMA EntryGood ==
    ASSUME NEW e, EntryOK(e), NEW F, Fresh(e, F)
    PROVE  /\ Fresh(Empty, F) /\ Coming(Empty, F)
           /\ Fresh(Fail(e), F) /\ Coming(Fail(e), F)
           /\ e.fetch = "read" => Fresh(Land(e), F) /\ Coming(Land(e), F)
           /\ Fresh(Fetch(e), F) /\ Coming(Fetch(e), F)
           /\ Fresh(Refetch(e), F) /\ Coming(Refetch(e), F)
           /\ Fresh(Mount(e), F) /\ Coming(Mount(e), F)
<1> USE DEF EntryOK, Entries, Fresh, Coming, InFlight
<1>1. Fresh(Empty, F) /\ Coming(Empty, F)
  BY DEF Empty
<1>2. Fresh(Fail(e), F) /\ Coming(Fail(e), F)
  BY DEF Fail
<1>3. e.fetch = "read" => Fresh(Land(e), F) /\ Coming(Land(e), F)
  BY DEF Land
<1>4. Fresh(Restart(e), F) /\ Coming(Restart(e), F)
  BY DEF Restart
<1>5. Fresh(Fetch(e), F) /\ Coming(Fetch(e), F) /\ Fresh(Refetch(e), F) /\ Coming(Refetch(e), F)
  BY <1>4 DEF Fetch, Refetch
<1>6. Fresh(Mount(e), F) /\ Coming(Mount(e), F)
  BY <1>5 DEF Mount
<1> QED
  BY <1>1, <1>2, <1>3, <1>5, <1>6

\* An invalidation keeps what was owed; one that is honoured owes a write more.
LEMMA InvalidateGood ==
    ASSUME NEW e, EntryOK(e), NEW F, Fresh(e, F), NEW active \in BOOLEAN, NEW G,
           G = F \/ ~InFlight(e) \/ (active /\ e.loaded)
    PROVE  Fresh(Invalidate(e, active), G) /\ (active => Coming(Invalidate(e, active), G))
<1> DEFINE f == [e EXCEPT !.stale = TRUE]
<1> USE DEF EntryOK, Entries, Fresh, Coming, InFlight
<1>1. CASE ~active
  BY <1>1 DEF Invalidate
<1>2. CASE active /\ InFlight(e) /\ ~e.loaded
  <2>1. Invalidate(e, active) = f
    BY <1>2 DEF Invalidate, Refetch
  <2> QED
    BY <1>2, <2>1
<1>3. CASE active /\ ~(InFlight(e) /\ ~e.loaded)
  <2>1. Invalidate(e, active) = Restart(f)
    BY <1>3 DEF Invalidate, Refetch
  <2> QED
    BY <2>1 DEF Restart
<1> QED
  BY <1>1, <1>2, <1>3

\* The steps of the queries, by what they make of the entry.
LEMMA QueryMove ==
    ASSUME EntryTypes, TabTypes, NEW k \in Keys,
           \/ Age(k) \/ Forget(k) \/ Poll(k) \/ Refresh(k)
           \/ Read(k) \/ Deny(k) \/ Answered(k) \/ FetchFails(k)
    PROVE  \E e : /\ EntryOK(e) /\ SetEntry(k, e)
                  /\ Good(k, entry[k]) /\ floor[k] \subseteq shows[k] => Good(k, e)
<1> DEFINE old == entry[k]
<1>1. EntryOK(old)
  BY DEF EntryTypes
<1>2. CASE Age(k)
  <2> DEFINE e == [old EXCEPT !.stale = TRUE]
  <2>1. EntryOK(e)
    BY <1>1 DEF EntryOK, Entries
  <2>2. Good(k, old) => Good(k, e)
    BY <1>1, <1>2 DEF Age, Good, Fresh, Coming, InFlight, EntryOK, Entries
  <2> QED
    BY <1>2, <2>1, <2>2 DEF Age
<1>3. CASE Forget(k)
  BY <1>1, <1>3, EntryKept, EntryGood DEF Forget, Good
<1>4. CASE Poll(k)
  BY <1>1, <1>4, EntryKept, EntryGood DEF Poll, Good
<1>5. CASE Refresh(k)
  BY <1>1, <1>5, EntryKept, EntryGood DEF Refresh, Good
<1>6. CASE Read(k)
  <2> DEFINE e == [old EXCEPT !.fetch = "read", !.got = shows[k]]
  <2>1. EntryOK(e)
    BY <1>1 DEF EntryOK, Entries, TabTypes
  <2>2. Good(k, old) /\ floor[k] \subseteq shows[k] => Good(k, e)
    BY <1>1, <1>6 DEF Good, Fresh, Coming, InFlight, EntryOK, Entries
  <2> QED
    BY <1>6, <2>1, <2>2 DEF Read
<1>7. CASE Deny(k)
  <2> DEFINE e == [old EXCEPT !.fetch = "denied"]
  <2>1. EntryOK(e)
    BY <1>1, <1>7 DEF Deny, EntryOK, Entries
  <2>2. Good(k, old) => Good(k, e)
    BY <1>1, <1>7 DEF Good, Fresh, Coming, InFlight, EntryOK, Entries
  <2> QED
    BY <1>7, <2>1, <2>2 DEF Deny
<1>8. CASE Answered(k)
  BY <1>1, <1>8, EntryKept, EntryGood DEF Answered, Good
<1>9. CASE FetchFails(k)
  BY <1>1, <1>9, EntryKept, EntryGood DEF FetchFails, Good
<1> QED
  BY <1>2, <1>3, <1>4, <1>5, <1>6, <1>7, <1>8, <1>9

\* A 401: on the login page one more error, elsewhere a new document.
LEMMA DeniedMove ==
    ASSUME EntryTypes, NEW k \in Keys, Denied(k)
    PROVE  \/ \E e : EntryOK(e) /\ SetEntry(k, e) /\ (Good(k, entry[k]) => Good(k, e))
           \/ Bounce /\ UNCHANGED <<visible, session, shows, floor>>
<1>1. EntryOK(entry[k])
  BY DEF EntryTypes
<1> QED
  BY <1>1, EntryKept, EntryGood DEF Denied, Good

-----------------------------------------------------------------------------
\* The types hold at the start.
LEMMA InitTypes ==
    ASSUME Init
    PROVE  TabTypes /\ EntryTypes
<1>1. [st |-> "idle"] \in WriteState
  <2>1. [st |-> "idle"] \in [st: {"idle", "done"}]
    OBVIOUS
  <2> QED
    BY <2>1 DEF WriteState
<1>2. write \in [Writes -> WriteState]
  BY <1>1 DEF Init
<1>3. EntryOK(Empty)
  BY DEF EntryOK, Entries, Empty
<1>4. EntryTypes
  BY <1>3 DEF Init, EntryTypes, EntryOK
<1> QED
  BY <1>2, <1>4 DEF Init, TabTypes

\* Every step keeps the types.
LEMMA TypeStep ==
    ASSUME TabTypes, EntryTypes, [Next]_vars
    PROVE  TabTypes' /\ EntryTypes'
<1> USE ConsoleAssumption
<1>1. CASE UNCHANGED vars
  BY <1>1 DEF vars, tabVars, routeVars, cacheVars, TabTypes, EntryTypes, EntryOK
<1>2. ASSUME NEW p \in Routes, Navigate(p) PROVE TabTypes' /\ EntryTypes'
  <2>1. CASE Bounce
    BY <1>2, <2>1, BounceKept DEF Navigate
  <2>2. CASE ~Bounce
    BY <1>2, <2>2, RenderKept DEF Navigate, TabTypes
  <2> QED
    BY <2>1, <2>2
<1>3. ASSUME NEW p \in Routes, Login(p) PROVE TabTypes' /\ EntryTypes'
  BY <1>3, RenderKept DEF Login, TabTypes
<1>4. CASE BackToLogin \/ LoggedOut
  BY <1>4, RenderKept DEF BackToLogin, LoggedOut, TabTypes
<1>5. CASE Logout \/ LogoutFails \/ Expire \/ ForgetWhoami
  BY <1>5 DEF Logout, LogoutFails, Expire, ForgetWhoami, cacheVars, TabTypes, EntryTypes, EntryOK
<1>6. ASSUME NEW k \in Keys,
             \/ Age(k) \/ Forget(k) \/ Poll(k) \/ Refresh(k)
             \/ Read(k) \/ Deny(k) \/ Answered(k) \/ FetchFails(k)
      PROVE  TabTypes' /\ EntryTypes'
  BY <1>6, QueryMove, SetEntryKept
<1>7. ASSUME NEW k \in Keys, Denied(k) PROVE TabTypes' /\ EntryTypes'
  BY <1>7, DeniedMove, SetEntryKept, BounceKept
<1>8. ASSUME NEW w \in Writes, NEW hook \in Mutations, Save(w, hook)
      PROVE  TabTypes' /\ EntryTypes'
  <2>1. [st |-> "sent", hook |-> hook, by |-> "card"] \in WriteState
    BY DEF WriteState, Waiters
  <2> QED
    BY <1>8, <2>1 DEF Save, tabVars, routeVars, TabTypes, EntryTypes, EntryOK
<1>9. ASSUME NEW w \in Writes, Apply(w) PROVE TabTypes' /\ EntryTypes'
  <2>1. [write[w] EXCEPT !.st = "applied"] \in WriteState
    BY <1>9 DEF Apply, WriteState, TabTypes
  <2> QED
    BY <1>9, <2>1 DEF Apply, tabVars, routeVars, TabTypes, EntryTypes, EntryOK
<1>10. ASSUME NEW w \in Writes, Ack(w) PROVE TabTypes' /\ EntryTypes'
  <2>1. [st |-> "done"] \in WriteState
    BY DEF WriteState
  <2>2. \A k \in Keys : EntryOK(entry[k]) /\ EntryOK(Invalidate(entry[k], Active(k)))
    BY EntryKept DEF EntryTypes
  <2>3. EntryTypes'
    BY <1>10, <2>2 DEF Ack, EntryTypes, EntryOK
  <2> QED
    BY <1>10, <2>1, <2>3 DEF Ack, tabVars, routeVars, TabTypes
<1>11. ASSUME NEW w \in Writes, Nak(w) PROVE TabTypes' /\ EntryTypes'
  <2>1. [st |-> "done"] \in WriteState
    BY DEF WriteState
  <2> QED
    BY <1>11, <2>1 DEF Nak, tabVars, routeVars, TabTypes, EntryTypes, EntryOK
<1>12. CASE SwitchTabs
  BY <1>12 DEF SwitchTabs, Hidden, Shown, tabVars, routeVars, cacheVars, TabTypes, EntryTypes, EntryOK
<1> QED
  BY <1>1, <1>2, <1>3, <1>4, <1>5, <1>6, <1>7, <1>8, <1>9, <1>10, <1>11, <1>12 DEF Next

\* The pages leave the visibility of the tab to the browser.
LEMMA NextVisible ==
    ASSUME Next
    PROVE  Hidden \/ Shown \/ UNCHANGED visible
<1>1. ASSUME NEW p \in Routes, Navigate(p) \/ Login(p) PROVE UNCHANGED visible
  BY <1>1 DEF Navigate, Login
<1>2. CASE BackToLogin \/ Logout \/ LoggedOut \/ LogoutFails \/ Expire \/ ForgetWhoami
  BY <1>2 DEF BackToLogin, Logout, LoggedOut, LogoutFails, Expire, ForgetWhoami
<1>3. ASSUME NEW k \in Keys,
             \/ Age(k) \/ Forget(k) \/ Poll(k) \/ Refresh(k)
             \/ Read(k) \/ Deny(k) \/ Answered(k) \/ Denied(k) \/ FetchFails(k)
      PROVE  UNCHANGED visible
  BY <1>3 DEF Age, Forget, Poll, Refresh, Read, Deny, Answered, Denied, FetchFails, SetEntry, tabVars
<1>4. ASSUME NEW w \in Writes,
             (\E hook \in Mutations : Save(w, hook)) \/ Apply(w) \/ Ack(w) \/ Nak(w)
      PROVE  UNCHANGED visible
  BY <1>4 DEF Save, Apply, Ack, Nak, tabVars
<1> QED
  BY <1>1, <1>2, <1>3, <1>4 DEF Next, SwitchTabs

\* While the pages are worked on there is no chart.
TabInv ==
    /\ at \in {"pages", "chart"}
    /\ TabTypes /\ EntryTypes /\ LiveInv
    /\ at = "pages" => ~chart

\* A step of one half leaves the invariant of the other.
LEMMA TabStep ==
    ASSUME TabInv, [TabNext]_allVars
    PROVE  TabInv'
<1>1. CASE at = "pages" /\ Next /\ UNCHANGED <<at, hookVars>>
  <2>1. TabTypes' /\ EntryTypes'
    BY <1>1, TypeStep DEF TabInv
  <2>2. visible' \in BOOLEAN
    BY <2>1 DEF TabTypes
  <2>3. LiveInv'
    BY <1>1, <2>2 DEF TabInv, hookVars, LiveInv, LiveTypeOK, OneLiveSocket, PillIsBacked, Alive
  <2> QED
    BY <1>1, <2>1, <2>3 DEF TabInv, hookVars
<1>2. CASE at = "chart" /\ LiveNext /\ UNCHANGED <<at, routeVars, cacheVars>>
  <2>1. LiveInv'
    BY <1>2, LiveStep DEF TabInv
  <2>2. visible' \in BOOLEAN
    BY <2>1 DEF LiveInv, LiveTypeOK
  <2>3. TabTypes' /\ EntryTypes'
    BY <1>2, <2>2 DEF TabInv, routeVars, cacheVars, TabTypes, EntryTypes, EntryOK
  <2> QED
    BY <1>2, <2>1, <2>3 DEF TabInv
<1>3. CASE UNCHANGED allVars
  <2>1. UNCHANGED <<page, session, whoami, leaving, visible, shows, entry, write, floor>>
    BY <1>3 DEF allVars, vars, tabVars, routeVars, cacheVars
  <2>2. UNCHANGED <<at, visible, chart, sock, ws, mine, connected>>
    BY <1>3, <2>1 DEF allVars, hookVars
  <2>3. LiveInv'
    BY <2>2, LiveStep DEF TabInv, liveVars
  <2> QED
    BY <2>1, <2>2, <2>3 DEF TabInv, TabTypes, EntryTypes, EntryOK
<1> QED
  BY <1>1, <1>2, <1>3 DEF TabNext

\* A tab keeps its types: routes, session, cache and writes, and the sockets.
THEOREM TypeCorrect == TabSpec => []TabTypeOK
<1>1. TabInit => TabInv
  BY InitTypes, LiveStart DEF TabInit, TabInv, LiveInit
<1>2. TabInv /\ [TabNext]_allVars => TabInv'
  BY TabStep
<1>3. TabInv => TabTypeOK
  BY TypeParts DEF TabInv, TabTypeOK, LiveInv
<1> QED
  BY <1>1, <1>2, <1>3, PTL DEF TabSpec

\* Each half of a tab is what Console and LiveHook say of it: to the pages a step of
\* the hook is a tab that is hidden or shown at most, and the other way round.
THEOREM TabParts == TabSpec => Spec /\ LiveSpec
<1>1. TabInit => TabInv /\ Init /\ LiveInit
  BY InitTypes, LiveStart DEF TabInit, TabInv, LiveInit
<1>2. TabInv /\ [TabNext]_allVars => TabInv'
  BY TabStep
<1>3. ASSUME TabInv, [TabNext]_allVars PROVE [Next]_vars
  <2>1. CASE at = "chart" /\ LiveNext /\ UNCHANGED <<at, routeVars, cacheVars>>
    <3>1. Hidden \/ Shown \/ UNCHANGED visible
      BY <2>1 DEF LiveNext, MountChart, UnmountChart, Reconnect, Hide, Show, SocketOpens, SocketCloses
    <3> QED
      BY <2>1, <3>1 DEF Next, SwitchTabs, vars, tabVars
  <2>2. CASE UNCHANGED allVars
    BY <2>2 DEF allVars
  <2> QED
    BY <1>3, <2>1, <2>2 DEF TabNext
<1>4. ASSUME TabInv, [TabNext]_allVars PROVE [LiveNext]_liveVars
  <2>1. CASE at = "pages" /\ Next /\ UNCHANGED <<at, hookVars>>
    <3>1. Hidden \/ Shown \/ UNCHANGED visible
      BY <2>1, NextVisible
    <3>2. ~chart /\ UNCHANGED <<chart, sock, ws, mine, connected>>
      <4>1. ~chart
        BY <1>4, <2>1 DEF TabInv
      <4> QED
        BY <2>1, <4>1 DEF hookVars
    <3>3. CASE Hidden
      BY <3>2, <3>3 DEF LiveNext, Hide
    <3>4. CASE Shown
      BY <3>2, <3>4 DEF LiveNext, Show
    <3>5. CASE UNCHANGED visible
      BY <3>2, <3>5 DEF liveVars
    <3> QED
      BY <3>1, <3>3, <3>4, <3>5
  <2>2. CASE UNCHANGED allVars
    BY <2>2 DEF allVars, vars, tabVars, hookVars, liveVars
  <2> QED
    BY <1>4, <2>1, <2>2 DEF TabNext
<1> QED
  BY <1>1, <1>2, <1>3, <1>4, PTL DEF TabSpec, Spec, LiveSpec

-----------------------------------------------------------------------------
(***************************************************************************)
(* Read your writes.  The induction needs what ReadYourWrites leaves out:  *)
(* that an answer already read is not older than what is owed, and that    *)
(* what is owed is at the backend.                                         *)
(***************************************************************************)
Owed ==
    /\ \A w \in Writes : write[w].st = "applied" =>
          \A k \in Keys : k \in write[w].hook.own => w \in shows[k]
    /\ \A k \in Keys : floor[k] \subseteq shows[k]

CacheInv == Owed /\ \A k \in Keys : Good(k, entry[k])

\* A step that leaves the writes, or ends their callbacks, owes what was owed.
LEMMA OwedKept ==
    ASSUME TabTypes, Owed, NEW by, LeaveCards(by) \/ UNCHANGED write, UNCHANGED <<shows, floor>>
    PROVE  Owed'
<1>1. ASSUME NEW w \in Writes, write'[w].st = "applied"
      PROVE  write[w].st = "applied" /\ write'[w].hook = write[w].hook
  <2>1. CASE UNCHANGED write
    BY <1>1, <2>1
  <2>2. CASE LeaveCards(by)
    <3>1. CASE Pending(w) /\ write[w].by # "nobody"
      <4>1. write[w] \in [st: {"sent", "applied"}, hook: Mutations, by: Waiters]
        BY <3>1 DEF TabTypes, WriteState, Pending
      <4>2. write'[w] = [write[w] EXCEPT !.by = by]
        BY <2>2, <3>1 DEF LeaveCards
      <4> QED
        BY <1>1, <4>1, <4>2
    <3>2. CASE ~(Pending(w) /\ write[w].by # "nobody")
      BY <1>1, <2>2, <3>2 DEF LeaveCards
    <3> QED
      BY <3>1, <3>2
  <2> QED
    BY <2>1, <2>2
<1> QED
  BY <1>1 DEF Owed

\* A route that is rendered mounts what is not shown yet.
LEMMA RenderGood ==
    ASSUME TabTypes, EntryTypes, CacheInv, NEW p, Render(p), UNCHANGED <<shows, floor>>
    PROVE  CacheInv'
<1>1. Owed'
  BY OwedKept DEF CacheInv, Render
<1>2. ASSUME NEW k \in Keys PROVE Good(k, entry[k])'
  <2>1. EntryOK(entry[k]) /\ Fresh(entry[k], floor[k]) /\ (Active(k) => Coming(entry[k], floor[k]))
    BY DEF EntryTypes, CacheInv, Good
  <2>2. Fresh(Mount(entry[k]), floor[k]) /\ Coming(Mount(entry[k]), floor[k])
    BY <2>1, EntryGood
  <2>3. CASE k \in Reads(p) \ Reads(page)
    <3>1. entry'[k] = Mount(entry[k])
      BY <2>3 DEF Render
    <3> QED
      BY <2>2, <3>1 DEF Good
  <2>4. CASE k \notin Reads(p) \ Reads(page)
    <3>1. entry'[k] = entry[k] /\ (k \in Reads(page') => k \in Reads(page))
      BY <2>4 DEF Render
    <3> QED
      BY <2>1, <3>1 DEF Good, Active
  <2> QED
    BY <2>3, <2>4
<1> QED
  BY <1>1, <1>2 DEF CacheInv

\* A new document has no data yet.
LEMMA BounceGood ==
    ASSUME TabTypes, CacheInv, Bounce, UNCHANGED <<visible, session, shows, floor>>
    PROVE  CacheInv'
<1>1. Owed'
  BY OwedKept DEF CacheInv, Bounce
<1>2. \A F : Fresh(Empty, F) /\ Coming(Empty, F)
  BY DEF Fresh, Coming, Empty
<1> QED
  BY <1>1, <1>2 DEF CacheInv, Good, Bounce

\* A step of one entry.
LEMMA SetEntryGood ==
    ASSUME TabTypes, EntryTypes, CacheInv, NEW k \in Keys, NEW e, SetEntry(k, e), Good(k, e)
    PROVE  CacheInv'
<1>1. Owed'
  BY OwedKept DEF CacheInv, SetEntry
<1>2. ASSUME NEW j \in Keys PROVE Good(j, entry[j])'
  <2>1. entry'[j] = IF j = k THEN e ELSE entry[j]
    BY DEF SetEntry, EntryTypes
  <2> QED
    BY <2>1 DEF CacheInv, Good, SetEntry, tabVars, routeVars, Active
<1> QED
  BY <1>1, <1>2 DEF CacheInv

\* An acknowledgement: every query the hook changes is invalidated.
LEMMA AckGood ==
    ASSUME TabTypes, EntryTypes, CacheInv, NEW w \in Writes, Ack(w)
    PROVE  CacheInv'
<1>1. write[w].st = "applied" /\ write[w].hook \in Mutations
  BY DEF Ack, TabTypes, WriteState
<1>2. Owed'
  <2>1. \A k \in Keys : floor'[k] \subseteq shows[k]
    BY <1>1 DEF Ack, CacheInv, Owed
  <2>2. \A v \in Writes : write'[v].st = "applied" => write'[v] = write[v]
    BY DEF Ack, TabTypes
  <2> QED
    BY <2>1, <2>2 DEF Ack, CacheInv, Owed
<1>3. ASSUME NEW k \in Keys PROVE Good(k, entry[k])'
  <2> DEFINE e == entry[k]
  <2>1. EntryOK(e) /\ Fresh(e, floor[k]) /\ (Active(k) => Coming(e, floor[k]))
    BY DEF EntryTypes, CacheInv, Good
  <2>2. Active(k)' = Active(k) /\ Active(k) \in BOOLEAN
    BY DEF Ack, tabVars, routeVars, Active
  <2>3. CASE InvalidatedBy(w, k)
    <3>1. entry'[k] = Invalidate(e, Active(k))
      BY <2>3 DEF Ack
    <3>2. floor'[k] = floor[k] \/ ~InFlight(e) \/ (Active(k) /\ e.loaded)
      BY DEF Ack, Honoured
    <3>3. /\ Fresh(Invalidate(e, Active(k)), floor'[k])
          /\ Active(k) => Coming(Invalidate(e, Active(k)), floor'[k])
      BY <2>1, <2>2, <3>2, InvalidateGood
    <3> QED
      BY <2>2, <3>1, <3>3 DEF Good
  <2>4. CASE ~InvalidatedBy(w, k)
    <3>1. k \notin write[w].hook.own
      BY <1>1, <2>4, ConsoleAssumption DEF InvalidatedBy
    <3>2. entry'[k] = e /\ floor'[k] = floor[k]
      BY <2>4, <3>1 DEF Ack
    <3> QED
      BY <2>1, <2>2, <3>2 DEF Good
  <2> QED
    BY <2>3, <2>4
<1> QED
  BY <1>2, <1>3 DEF CacheInv

\* Steps that change neither the page nor the entries nor what is owed to them.
LEMMA StillGood ==
    ASSUME CacheInv, Owed', UNCHANGED <<page, entry, floor>>
    PROVE  CacheInv'
  BY DEF CacheInv, Good, Active

\* Every step keeps what is owed.
LEMMA CacheStep ==
    ASSUME TabTypes, EntryTypes, CacheInv, [Next]_vars
    PROVE  CacheInv'
<1>1. CASE UNCHANGED vars
  BY <1>1, OwedKept, StillGood DEF vars, tabVars, routeVars, cacheVars, CacheInv
<1>2. ASSUME NEW p \in Routes, Navigate(p) PROVE CacheInv'
  BY <1>2, RenderGood, BounceGood DEF Navigate
<1>3. ASSUME NEW p \in Routes, Login(p) PROVE CacheInv'
  BY <1>3, RenderGood DEF Login
<1>4. CASE BackToLogin \/ LoggedOut
  BY <1>4, RenderGood DEF BackToLogin, LoggedOut
<1>5. CASE Logout \/ LogoutFails \/ Expire \/ ForgetWhoami
  BY <1>5, OwedKept, StillGood DEF Logout, LogoutFails, Expire, ForgetWhoami, cacheVars, CacheInv
<1>6. ASSUME NEW k \in Keys,
             \/ Age(k) \/ Forget(k) \/ Poll(k) \/ Refresh(k)
             \/ Read(k) \/ Deny(k) \/ Answered(k) \/ FetchFails(k)
      PROVE  CacheInv'
  <2>1. Good(k, entry[k]) /\ floor[k] \subseteq shows[k]
    BY DEF CacheInv, Owed
  <2> QED
    BY <1>6, <2>1, QueryMove, SetEntryGood
<1>7. ASSUME NEW k \in Keys, Denied(k) PROVE CacheInv'
  <2>1. Good(k, entry[k])
    BY DEF CacheInv
  <2> QED
    BY <1>7, <2>1, DeniedMove, SetEntryGood, BounceGood
<1>8. ASSUME NEW w \in Writes, NEW hook \in Mutations, Save(w, hook) PROVE CacheInv'
  <2>1. \A v \in Writes : write'[v].st = "applied" => write'[v] = write[v]
    BY <1>8 DEF Save, TabTypes
  <2>2. Owed'
    BY <1>8, <2>1 DEF Save, CacheInv, Owed
  <2> QED
    BY <1>8, <2>2, StillGood DEF Save, tabVars, routeVars
<1>9. ASSUME NEW w \in Writes, Apply(w) PROVE CacheInv'
  <2>1. write'[w].hook = write[w].hook
    BY <1>9 DEF Apply, TabTypes, WriteState
  <2>2. \A v \in Writes : v # w => write'[v] = write[v]
    BY <1>9 DEF Apply, TabTypes
  <2>3. \A k \in Keys : shows[k] \subseteq shows'[k] /\ (k \in write[w].hook.own => w \in shows'[k])
    BY <1>9 DEF Apply
  <2>4. Owed'
    BY <1>9, <2>1, <2>2, <2>3 DEF Apply, CacheInv, Owed
  <2> QED
    BY <1>9, <2>4, StillGood DEF Apply, tabVars, routeVars
<1>10. ASSUME NEW w \in Writes, Ack(w) PROVE CacheInv'
  BY <1>10, AckGood
<1>11. ASSUME NEW w \in Writes, Nak(w) PROVE CacheInv'
  <2>1. \A v \in Writes : write'[v].st = "applied" => write'[v] = write[v]
    BY <1>11 DEF Nak, TabTypes
  <2>2. Owed'
    BY <1>11, <2>1 DEF Nak, CacheInv, Owed
  <2> QED
    BY <1>11, <2>2, StillGood DEF Nak, tabVars, routeVars
<1>12. CASE SwitchTabs
  BY <1>12, OwedKept, StillGood DEF SwitchTabs, Hidden, Shown, tabVars, routeVars, cacheVars, CacheInv
<1> QED
  BY <1>1, <1>2, <1>3, <1>4, <1>5, <1>6, <1>7, <1>8, <1>9, <1>10, <1>11, <1>12 DEF Next

\* After the acknowledgement of a write no query that shows what it changed passes
\* for fresh without it, whatever fetches, navigations, polls and errors come before,
\* between and after, for any hooks that invalidate what they change.
THEOREM ReadYourWritesCorrect == Spec => []ReadYourWrites
<1> DEFINE Inv == TabTypes /\ EntryTypes /\ CacheInv
<1>1. Init => Inv
  <2>1. \A F : Fresh(Empty, F) /\ Coming(Empty, F)
    BY DEF Empty, Fresh, Coming
  <2>2. Init => CacheInv
    BY <2>1 DEF Init, CacheInv, Owed, Good
  <2> QED
    BY <2>2, InitTypes
<1>2. Inv /\ [Next]_vars => Inv'
  BY TypeStep, CacheStep
<1>3. Inv => ReadYourWrites
  BY DEF CacheInv, Good, Fresh, Coming, ReadYourWrites
<1> QED
  BY <1>1, <1>2, <1>3, PTL DEF Spec
=============================================================================
