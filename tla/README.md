# Formal models of procurve-webui

procurve-webui is a web console for an HP ProCurve switch: a FastAPI backend
(`src/backend`) that talks to the switch's old HTTP server, and a React frontend
(`src/frontend`) that talks to the backend. This directory holds TLA+ models of
the parts whose correctness depends on *order*: who may talk to the switch and
when, what a write to the switch is preceded by, which backups survive, which
WebSocket clients are told what, what a tab of the browser takes for the truth,
and whether what a card sends is what the operator saw. TLC checks the models on small
instances; TLAPS proves every safety property that TLC checks there, for every value
of the constants.

## 1. The system

| Component | Source | State it keeps | Operations | Modelled in |
|---|---|---|---|---|
| Switch transport | `procurve_client/transport.py` | one httpx client per session, one asyncio semaphore per switch host | get, post, login check, aclose | `SwitchLink` over `FairLock` |
| Write endpoints and write safety | `app/write_safety.py`, `app/api/{configuration,security,vlan,qos,status,diagnostics,backups}.py` | none of their own: session, switch, backup store | one handler for each write | `WriteSafety` over `SwitchLink`; `RollbackGuard` is what they promise |
| Backup store | `app/backup_store.py`, `app/api/backups.py` | `.pcc` and `.json` files in one directory | save, list, load, get_meta, delete | `BackupStore` |
| Port-traffic broadcaster | `app/ws/port_traffic.py` | subscribers and their bounded queues, one poll task, failure counts | subscribe, unsubscribe, poll loop, WebSocket handler | `PortTraffic` |
| Session store and login | `app/auth.py`, `app/deps.py`, `app/api/auth.py` | sessions, transports, login throttle | login, logout, lookup, sweep, close_all | `Sessions` (without the throttle); a live/ended flag in `WriteSafety` and `PortTraffic` |
| Health probe | `app/api/health.py` | cached result, lock, a transport of its own | probe, aclose | `HealthProbe` over `FairLock` |
| Application lifespan | `app/main.py` | the singletons above | start, shutdown | `Lifespan` over `Sessions` and `HealthProbe`; `Restart`, `Crash` actions elsewhere |
| Switch operations | `procurve_client/operations/*`, `_safety.py` | none | encode, send, parse | the answer's effect in `WriteSafety`; the parsers are not modelled |
| Query and mutation hooks | `frontend/src/api/hooks`, `main.tsx` | the query cache | queries, polls, mutations and their invalidations | `Console` over `Hooks` and `QueryCache` |
| Live traffic hook | `frontend/src/api/hooks/useLivePortTraffic.ts` | the sockets of a tab, `connected` | mount, unmount, reconnect, hide, show | `LiveHook`, beside `Console` in `Tab` |
| Routes and login | `frontend/src/routes`, `TopBar.tsx`, `LoginScreen.tsx` | the route, the cached whoami | guard, login, logout, bounce | `Console` |
| Cards with a form | `frontend/src/features/{configuration,security,vlans,diagnostics}`, `lib/useServerSync.ts`, `DangerConfirmDialog.tsx` | a draft, an open dialog, what was typed into it | edit, reseed, revert, confirm, save | `Cards` and `Forms`, in `Desk`; over which query: `Console` |
| Tables whose rows are written | `WebManagersCard`, `VlanListCard`, `BackupsListPage`, `StatusOverviewPage`, the CoS tables | ticked and selected rows, an open dialog, several writes at once | add, delete, rename, restore, acknowledge | `Rows`, in `Desk` |
| Request models | `procurve_client/models/*` | none | accept or refuse a body | `Accepted` in `Cards`, as far as fields depend on each other or are left empty |
| Everything else | middlewares, logging, pages that only show, styles, generated schema, research notes, containers | none of interest | | not modelled |

**How they interact.** Every handler, the poll loop and the health probe run as
coroutines of one event loop. All that reach the switch await the same semaphore
(one permit per host). A write handler goes: session cookie -> READ_ONLY gates ->
payload validation -> *download the configuration through the link* -> *save it*, on
the event loop -> *send the write through the link*. The poll loop borrows the
transport of any subscriber whose session is alive. A logout drops the session
and closes the transport while other coroutines may be waiting for the permit or
for an answer on it. Backup files are touched by the event loop itself (`save`, in the
handlers that are coroutines) and by pool threads (the list and the delete of backups
are plain functions, which FastAPI runs there).

**What is hard.** A caller that times out or is cancelled frees the permit and
leaves its request at the switch. A logout hits requests in flight. Two handlers
interleave between a snapshot and a write. A client may hang up while its
queue is full, or while the loop is between "nobody is left" and its own end.
A name of a backup can be chosen again after the backup was deleted. The process
may stop between any two file-system calls. A poll lands while the operator types,
while a dialog is open, or between two ticks; the answer of one write arrives while
the next is under way; another operator writes between what was read and what is sent.

**What makes it correct.** One permit, FIFO, always given back. A write is
preceded by a backup that is really on disk and really was the switch's
configuration; a write is sent at most once for each request; a success is reported
only for a write that is over, so that nothing of it comes later (not always for one
that took effect: the checks of the answers let an unknown diagnostic pass). The poll loop runs whenever somebody is
subscribed, stops when nobody is, leaves a dead switch alone. A backup that was
acknowledged is neither lost nor rewritten, and what is shown was what was
saved. What the query cache calls fresh shows every write it was told of; a live
chart holds one live socket at most, and only while it is looked at; the end of a
session is noticed. What a card shows at the click is what the switch has after the
write, unless somebody else wrote; a field that nobody touched is sent as its card
carries it, which is as it was read but for five cards; no
guarded write goes out but from its own dialog; no row is named that is not on the
screen; who locks himself out was told so.

`PROJECT.json` lists the hazards at their source lines with the properties that
cover them; those that no property covers yet say why.

## 2. The modules

    FairLock <--EXTENDS-- SwitchLink <--INSTANCE-- WriteSafety --refines--> RollbackGuard
    FairLock <--EXTENDS-- HealthProbe <--INSTANCE-- Lifespan --EXTENDS--> Sessions
    PortTraffic          (its own view of sessions; one poll = one link request)
    BackupStore          (its own view of the file system)
    Hooks, QueryCache, Document <--EXTENDS-- Console      (the pages; their own view of the backend)
    Document <--EXTENDS-- LiveHook                        (the hook of the live chart)
    Console, LiveHook <--EXTENDS-- Tab                    (one tab)
    Cards, Forms, Rows <--EXTENDS-- Desk  (what the operator works on; its own view of the API)
    <M>Proofs EXTENDS <M>, TLAPS        MC<M> EXTENDS <M>, TLC

### FairLock

The record of an `asyncio.Semaphore(1)` or `asyncio.Lock`: who holds it and who
waits, first come first served. `Acquire`, `Release` and `Leave` (give it back,
or stop waiting) are all that its users do. asyncio is outside `src/`, so these
are marked external.

### SwitchLink

`Tasks` are coroutines, `Sessions` transports, `Ops` the requests one task may
leave behind. `sem` is the asyncio semaphore (holder and FIFO queue: Python 3.12
hands the permit to the first waiter; a free permit with waiters cannot be
overtaken), `call[t]` is what a task does in `get`/`post`, `wire[t][o]` is what
the switch knows of request `o`.

| Action | Code |
|---|---|
| Call | entry of `get`/`post`: an open client, then `async with _switch_semaphore(host)` (`Acquire`) |
| Send | the permit is granted and `client.get` / `client.post` starts |
| SendOnClosed | the permit is granted and the client was closed meanwhile: an error, permit released |
| ReplyArrived, Return | the answer is there; the task leaves the `async with` and returns it |
| ReturnAndCall | the same, and the task makes its next call without a yield |
| Fail | an httpx error, the 15 s timeout among them: permit released, request left behind |
| Cancel | the coroutine is cancelled, waiting, granted or in flight |
| Close | `__aexit__`: a logout, a sweep, a login that failed |
| Serve, Lose | external: the switch handles a queued request, abandoned or not, or it is lost |

`__aexit__` awaits `aclose()` before it forgets `_client`; both are one Close,
since a call in that window fails as it does afterwards.

### WriteSafety and RollbackGuard

`WriteSafety` instantiates `SwitchLink` with `Handlers` for tasks and two
requests for each handler, the download and the write. A handler takes a job: a
kind of write, the session it came with, and whether the user typed the
confirmation. The kinds group the write endpoints by what differs in their
control: `edit` (checked answer), `loose` (an answer nobody checks: VLANs),
`lockout` and `locked` (confirmation needed, checked or unchecked: security),
`poke` (no backup: alert log, ping, link test), `reset`, `backup`, `restore`.
The tables `ConfigurationWrites` ... `BackupsWrites` say which endpoint is which
kind. A configuration of the switch is the set of edits it contains, so
"the backup was the configuration at some time since" and "this write is in
the configuration" are set expressions.

Actions: Arrive (session lookup), Reject (each gate in the code's order), Start /
StartOnClosed (the first call to the link), SendRequest, BackupThenWrite /
BackupOnly / BackupFails (the download's answer, parse, save, next
request), WriteReturns (how the answer becomes a response), RequestFails,
ServeDownload / ServeWrite / RejectWrite / LoseRequest (external: the switch),
Logout, Restart (`MaxRestarts` bounds it: the process dies, the switch keeps
working on what it was sent).

An answer is `ok`, `error` or `diagnostic`. `ensure_write_ok` takes for an error only a
status other than 200 and a body that starts with `error`; the firmware also rejects a
write with a 200 and another body (`transport.py:155-158`). So `RejectWrite` answers
either way, and `Verdict` says what each kind of endpoint makes of it: a `diagnostic`
passes for success, or for an error where the body is parsed (`Parsed`); an `error`
too may pass where only the body is looked at (`Unchecked`). `refusal` is a history
variable: how the switch refused.

`RollbackGuard` is the abstract specification: a change of the switch is allowed
only to one who holds a snapshot, taken earlier and kept. `GuardSpec` is that
specification under the refinement mapping at the end of `WriteSafety`.

### PortTraffic

`Sockets` are WebSocket clients. For each: the handler's program point, the
queue (`QueueMax`), the client's side of the connection; for the broadcaster: the
subscriber set, the loop's program point, the count of failures (`MaxFailures`).
The module keeps every await of `_run`, `subscribe` and the endpoint as a place
where others may run. `_rate`, frame contents and `aclose` at shutdown are left
out: a frame is only "a frame" or the close sentinel.

### BackupStore

A directory is a set of `.pcc` and `.json` files. `save`, `list` and `delete` are
modelled at the grain of file-system calls by `Threads`; `Seconds` and
`MaxSuffix` bound the names (a timestamp with a suffix), `MaxSaves` the number of
saves. Crash stops the process between any two calls (what was written stays:
the operating system does not crash), SaveFails is an `OSError` in one of them.
The choice of a free name is one step and `glob` is a snapshot, as the calls are
made without a yield in between in one thread and `glob` reads the directory at
once; `load` and `get_meta` change nothing and are left out.

### Sessions, HealthProbe and Lifespan

`Sessions` is `SessionStore` with the login, the lookup and the logout. A login
makes one transport and one session, so `Logins` names all three and each name
is used once. `Tasks` are the handlers that come with a cookie.

| Action | Code |
|---|---|
| LoginBegins, SweepGoesOn | `create_session`: `drop_expired` up to the next close it awaits (entries that others dropped are passed over), then the transport is entered and the probe sent |
| LoginSucceeds, LoginFails, LoginEnds | the probe is accepted and the entry stored; it fails or is cancelled and the transport is closed; the close is done, or cancelled |
| Lookup, Logout, TaskEnds | `get_session` (an expired entry is dropped) and `delete_session`; the handler ends |
| Expire | the entry's time is over |

`drop` pops the entry before it awaits the close, and httpx takes a client for
closed as soon as `aclose()` has begun: one step. A close that raises is not
modelled. A cookie whose signature is too old changes nothing.

`HealthProbe` is `HealthProbeCache`: `Callers` are handlers of `/api/v1/health`,
`now` the monotonic clock in ticks, `Ttl` the time a verdict is fresh. `Ask` and
`Resume` are the code on both sides of `async with self._lock`, `Probed` the end
of the probe, `Cancel` a client that hangs up, `Close` its `aclose()`. `last` is
a history variable: the last probe that came to a verdict.

`Lifespan` composes the two as `main.py` does. The server (external) is told to
`Stop`, takes no more requests and waits for its handlers; then `lifespan()`
closes the health probe (`ShutHealth`) and the sessions one by one
(`ShutSessions`, `ShutNext`) and returns (`Down`). The broadcaster's `aclose`
comes first and touches none of this state.

### Hooks, QueryCache, Document, LiveHook, Console and Tab

`Hooks` is the table of the frontend's queries and mutations: the keys, which
route keeps which query active (`Reads`) or polls it (`Polls`), and for each
mutation hook the route of its card, the queries whose data the card needs, the
filters its `onSuccess` invalidates and, from the hook's own comments, what it
changes (`own`). Ids in keys are one token, since a filter matches by prefix.

`QueryCache` is the part of TanStack Query (external) that the code relies on, as
operators on one cache entry: a fetch joins the one in flight, `refetch` and an
invalidation cancel it unless nothing was loaded yet, a cancelled fetch's answer is
dropped. The data of an entry are the set of writes they show.

`LiveHook` is the effect of `useLivePortTraffic`. `ws` is the socket of its closure,
`mine` those whose events it still hears (`cancelled`), `sock` the readyState of
every socket the tab has opened. The samples are left out, and so is a change of
the port on a mounted chart.

The hook is modelled by itself, with `MountChart` and `UnmountChart` at any time: what
is checked of it is its own promise. In the program of this commit nobody calls it.
`/status/ports/$port` is a child of `/status` (`routeTree.gen.ts:75-80`), whose page has
no `<Outlet/>` (`StatusOverviewPage.tsx:204-504`); the port deep link (`README.md:340` of
the repository, `SwitchSvg.tsx:157`) shows the status page and goes on with its polls,
and `PortDetailPage` is never mounted. So `Hooks` has no page of its own for a port.

`Console` is the pages of one tab.

| Action | Code |
|---|---|
| Navigate, Login, BackToLogin | `beforeLoad` with `ensureQueryData`; `LoginScreen`; the history. `Render` is the mounting of the page's queries and the unmounting of cards |
| Logout, LoggedOut, LogoutFails | `handleLogout`: the backend ends the session; the soft navigation keeps the cache |
| Expire, ForgetWhoami | the session ends at the backend; the cached whoami is collected |
| Age, Forget, Poll, Refresh | `staleTime`, `gcTime`, `refetchInterval`, the refresh and retry buttons |
| Read, Deny, Answered, Denied, FetchFails | a fetch at the backend and its end; `Denied` is `QueryCache.onError`, whose `Bounce` is a new document at the login page |
| Save, Apply, Ack, Nak | a card sends a write; the backend carries it out; `onSuccess` of the hook, also after the card is gone; an error |
| SwitchTabs | the tab is hidden or seen (`Document`) |

The fetch of whoami and the route change are one step. `floor` is a history
variable: the writes whose acknowledgement the cache has to honour. It leaves out
the answers of `Honoured`: an invalidation joins a first load, and leaves alone a
fetch without a page, so that an older answer lands as fresh (a hazard of its own).

`Tab` puts pages and hook in one model. As they share only the visibility of the
document, each initial state works on one of the two (`at`), and the other stands still;
`TabParts` proves that each half is then its own specification.

### Cards, Forms, Rows and Desk

`Forms` is one mounted card: a query, a form, perhaps a dialog, and a mutation. What
the cards have in common is its actions; in what they differ is data, and `Cards`
has a record for each of the 22 cards, with the traits that choose between them (has
it `useServerSync`, are its inputs behind an Edit button, is its write behind
`DangerConfirmDialog`, does a success empty it), the bodies it sends for a form,
what its inputs display for one, and with which values it sends what was read and not
touched (`carries`): the setting itself, but for five cards, which say so in `Cards`. `AllCards` is the table of them; the
constant `Card` of `Forms` stands for any such table.

| Action of `Forms` | Code |
|---|---|
| Outside, Unheard | another operator writes; a write is carried out for whose answer the card no longer waits (external) |
| Ask, Answer, Land | a fetch of the query; what lands goes through `useServerSync` (`Sync`) |
| BeginEdit, Enter, Revert | the Edit button, an input, Revert / Cancel / Clear |
| EditAnother | Edit in another row while one is edited (`PerPortSecurityCard`): enabled during a write, which the card then forgets |
| Save | the button of a card without a dialog |
| OpenDialog, TypeIp, Dismiss, Confirm | `DangerConfirmDialog` |
| Apply, Ack, Nak | the API carries a write out (external); `onSuccess` with its next body or the end; an error, or an answer that is lost |

`Rows` is one mounted table whose rows are written one by one or several at once.
A row is a slot (an index, a VLAN id, a file name) with a content. Only the managers
have two contents: they cover the address of the browser, or not.

| Action of `Rows` | Code |
|---|---|
| Elsewhere | rows come and go by others (external) |
| AskRows, AnswerRows, LandRows | a fetch of the query |
| ToggleId, ToggleAll, SelectVlan | the checkboxes of the alerts, the row of a VLAN |
| Press, EnterIp, Cancel, HandleConfirm | the buttons of a row or of the page, the dialogs |
| CarryOut, Succeed, Fail | the API; `onSuccess` of the hook and, for the last call of a mutation, of the page; an error |

`Desk` puts the two side by side: a step is one of the card or one of the table.
Cards and tables share nothing but the page, so that each initial state works on one
of them. History variables record which fields the operator changed since the form was filled
(`edited`), what it was filled from (`filled`), what it showed at the click (`shown`
of a request), that the IP was typed in this opening (`keyed`), and which alerts were
pointed at (`pointed`).

What is abstracted: one card or table is mounted at a time, and navigation is in
`Console`; fields that a card treats alike are one (the contact is as the location,
the 802.1p priority of a policy as its codepoint), and so are values (a monitor
without a destination is edited as one with the first candidate). Texts are told apart as
far as the cards do: empty, all blank, with blanks at the ends, and without (`Trimmed`). The IP of the switch and the address
of the browser are taken to be known; names of VLANs are not told apart. A write that
goes on at the switch after its answer was lost is a change by others; one that the card
forgot while it was under way is on its own (`unheard`) and counts against the same
bound.

## 3. What TLC checks

| Run | Bounds | Shows |
|---|---|---|
| `link` | 3 tasks, 2 sessions, 2 requests each | PermitInv: exactly the holder is past the semaphore and waiters are the queue. NoOvertaking: a waiter is not passed. EveryWaiterServed, LogoutDrains: every call ends, and those of a closed transport too. |
| `link_stacking` | same | violated: see findings |
| `write_safety` | 2 handlers, 2 sessions, 1 restart | GatesHold: nothing reaches the switch against a gate. RollbackIsReal: each backup was the configuration of the switch. AtMostOnce: one request, one effect. AckIsSettled: a success means that the write is over, applied or refused in a way the endpoint does not recognise. GuardSpec: the handlers implement `RollbackGuard`. |
| `write_rollback` | same, no restart | violated: see findings |
| `traffic` | 2 sockets, 2 sessions, queue of 2, 2 failures | PollsWhenSubscribed, OneLateFrame, DownSwitchLeftAlone, HangUpNoticed, SubscriberServed |
| `traffic_kick` | same | violated: see findings |
| `backups` | 2 threads, 2 seconds, 1 suffix, 2 saves | AckedIsKept, ShownWasWritten, NeverRewritten |
| `backups_list` | same | violated: see findings |
| `lifespan` | 3 logins and 2 handlers, or 3 health callers, a verdict fresh for 2 ticks of 4 | Owned: a transport is open exactly when somebody will close it. SweptFirst: a login probes only after the expired sessions are released, whoever races its sweep. ProbesSpaced: one probe at a time and none sooner than the freshness time after the last. AnswersFresh: an answer is a recent probe's. ShutdownCloses, AskerAnswered: a stop ends with nothing open, and the lock is never left behind. |
| `console` | 1 polled query with a write of its own, 2 writes, 2 pages and the login; or the hook with 3 sockets | ReadYourWrites: no data pass for fresh without a write that was acknowledged, and what the screen lacks is on its way or failed. OneLiveSocket, PillIsBacked: the hook of the live chart. ExpiryNoticed: a page that polls leaves for the login page. |
| `live_button` | the hook alone, 2 sockets | violated: see findings |
| `cards` | the 22 cards and the 6 tables, each by itself; 1 change by others or forgotten write, 2 rows, 1 alert on the screen, 2 writes at once | LandsAsShown: the bodies of one Save leave the switch with what the inputs showed, blanks at the ends aside. UntouchedAsCarried: an edit of one field is a write of another only where `Cards` says so. SendsAccepted: the request models accept what a card can send. ModalHolds: no guarded write but under its dialog. OnlyPointedAt: alerts are acknowledged or deleted only if they were ticked and are on the screen. LockoutWarned: who deletes or adds managers so that his own address is left out was warned. |

`MCConsole` also assumes, and TLC evaluates, that each of the hooks in `AllHooks`
invalidates everything it changes (`HooksCover`); the induction behind
ReadYourWrites rests on nothing else about the hooks.

**Why the bounds are enough.** Three tasks give a holder and a queue of two, the
least in which FIFO can be broken; two sessions let one log out under the other;
two requests for each task let one be abandoned while the next is in flight. Two
handlers give every race between a snapshot and a write. A queue of 2 can be
full, drained and partly drained; two failures reach the give-up threshold after
a success reset the count. Two seconds and one suffix make a name be reused
after a delete, with the other save next to it. Three logins give two
expired entries and the login that sweeps them, two handlers a logout and a
lookup that take the entries away. Three callers give one that probes and a queue
of two; the clock runs long enough for a second probe and for a verdict that grows
stale in the queue. Two writes let one be acknowledged while the fetch that the
other restarted is under way; three sockets give one that closes late, its
successor and the one after a reconnect. A tab is worked on in its pages or in the hook
(`at`), since no page renders the chart. On the desk one change by
others puts every setting, or any row, between a read and a click, before or after
the write; two rows with one alert on the screen let an alert that was ticked be
pushed off it, or be deleted and the older one take its place; two writes are what the
backups page allows side by side, of the same kind or of two. Each bound is a CONSTANT; the proofs hold for every value of
it.

**Fairness.** `LinkFairness`: the event loop resumes a task that holds the
permit, and a request in flight ends, by its answer or by the 15 s timeout
(`transport.py`). httpx counts the timeout for each phase and each read anew, so a switch
that sends a byte every few seconds could hold a request open: the fairness is slightly
stronger than the code, and excludes such a switch. Nothing is assumed of the switch. `TrafficFairness`: the loop
runs, a poll ends (same timeout), a send to a client ends or fails, and the
server notices that a connection is lost. No client is assumed to stay or go.
`LifespanFairness`: the event loop resumes a login, a lookup or `lifespan()` whose
close is done, and the holder of the lock; a probe ends (the same timeout); every
handler ends. That clients stop asking is not assumed: the server takes no more
requests once it drains.
`Fairness` of `Console`: the interval timer of a tab that is seen fires; the backend
answers, as its own timeouts end what it waits for; and the network does not fail
every request (strong fairness: a poll may fail again and again, but not for ever).
The user is assumed to do nothing.
`WriteSafety`, `BackupStore` and `Desk` state safety only and use no fairness.

**Deadlock** is checked in `console`, `live_button` and `cards`. Elsewhere it is not: handlers are one-shot, sessions end for good, sockets
close, saves are bounded, so these models may rightly stop. That nobody waits for
ever is stated by the liveness properties instead.

### Findings

Each is a violation run: TLC shows that the code does not do what a comment says.

* `KickedIsClosed` (`traffic_kick`): a client whose queue is full when its session
  ends is dropped without its close sentinel and stays open for ever.
* `NoStacking` (`link_stacking`): a timeout frees the permit while the switch still
  works on the request, so requests can stack at the switch.
* `RestoreRollbackPoint` (`write_rollback`): the permit is not held from the
  pre-restore snapshot to the upload, so the snapshot may not be the
  configuration the restore replaced.
* `ListIsResilient` (`backups_list`): a delete between `glob` and the reading of the
  metadata makes the whole listing fail.
* `ButtonIsAccurate` (`live_button`): the late close event of a socket that a
  visibility reopen has replaced marks the chart disconnected over an open socket. A defect
  of the hook: no page renders the chart at this commit.

## 4. What TLAPS proves

The theorems hold for every value of the constants, from the named ASSUMEs of
the modules alone: that the "nobody" value is not a member, that sets are not
empty, that bounds are natural numbers. The one hypothesis beyond them is
`Card = AllCards` in four theorems of `DeskProofs`, which says that the cards are
those of the frontend (TLC uses the same table).

| Module | Theorems | Inductive invariant |
|---|---|---|
| `SwitchLinkProofs` | TypeCorrect, PermitCorrect, NoOvertakingCorrect; NoDeadlock, MovesUpCorrect, ClosedCorrect | `LinkInv`: PermitInv is not inductive without the facts that the queue has no repetition and that its members are exactly the waiting tasks |
| `WriteSafetyProofs` | TypeCorrect, GatesCorrect, AtMostOnceCorrect, AckCorrect, RollbackCorrect, GuardCorrect (the refinement of `RollbackGuard`); LinkImplemented, PathPermitCorrect, PathInOrder | `WriteInv`: GatesHold is about the switch, so the invariant must say that each gate was passed already when the request was put on the wire, and where a handler stands for each state of its two requests; for RollbackCorrect and GuardCorrect also that what was downloaded was the configuration of the switch at that time |
| `PortTrafficProofs` | TypeCorrect, PollsCorrect, LateCorrect; CloseCorrect, CountCorrect | `TrafficInv`: PollsWhenSubscribed and, for each socket, that a kicked one gets no frame and at most one late frame is under way; CloseCorrect needs in addition that a subscriber has nothing but frames in its queue |
| `BackupStoreProofs` | TypeCorrect, KeptCorrect, ShownCorrect, RewriteCorrect | `StoreInv`: AckedIsKept with what each thread's program point says of the files it created (`SaveInv`, `ReqInv`) and that a sidecar describes the `.pcc` next to it (`SidecarInv`) |
| `FairLockProofs` | lemmas only: what `Acquire`, `Release` and `Leave` do to a queue without repetition, and who moves up in it | used by `SwitchLinkProofs` and `LifespanProofs` |
| `LifespanProofs` | LifespanTypeCorrect, OwnedCorrect, SweptCorrect, DownCorrect, SpacedCorrect, FreshCorrect; AskersCorrect, AskersMoveUpCorrect, GoneCorrect | `SessionInv`: Owned and SweptFirst need to know which logins have entered a transport, that an entry that is not due any more is closed, and in which phase anything may still be open; GoneCorrect also that a login has no transport before its sweep is over (`Unopened`). `HealthInv`: who is in the queue is waiting, the holder is the one that probes, and every recorded time is past |
| `ConsoleProofs` | TypeCorrect, LiveCorrect, PillCorrect, ReadYourWritesCorrect; TabParts | `LiveInv`: PillIsBacked needs that a pill says Live only while the chart is mounted; `CacheInv`: ReadYourWrites needs that an answer already read is not older than what is owed, and that what is owed is at the backend |
| `DeskProofs` | for any table of cards RowsTypesCorrect, ModalCorrect, PointedCorrect, LockoutCorrect; AllCardsFit, and from it DeskTypesCorrect, LandsCorrect, AcceptedCorrect, UntouchedCorrect | `DeskInv` and `CardInv`, below |

Each proof shows the invariant for Init, then for each action of Next in a step of
its own, and ends in a temporal step.

**The desk.** `DeskInv` is about dialogs and tables, for any table of cards: a
dialog in which the IP was typed was typed in since it opened (`FormsInv`); a button asks
for rows of the table or for a new one (`TypesInv`); ModalHolds needs that a dialog
is open only for a guarded write, of which there is one and which no later call has
replaced (`FlightInv`); LockoutWarned needs that the warning was about the rows that
a write will leave (`WarnedInv`).

What a card sends depends on the card. The proof is in two halves. `Fits(n, c)` is
what a record of the table must satisfy, without any reference to behaviour: its
forms can be mixed field by field; a dialog goes with the traits that keep form and data
together under it; one body or two, which make a setting of a setting; carried out on
the data they were made of, the bodies make what is shown; the API accepts them; a field
left as it was read is sent as the record carries it. `CardInv` is inductive for every table of
cards that fits: what the form was filled from is what is known, a field outside
`edited` is as it was filled (`SeedInv`), the dialog is open only over a form that can be
sent (`SavableInv`), and a request under way carries a body of a Save, with the rest of the
bodies behind it and what was shown at the click (`SentInv`). `AllCardsFit` is the other
half: each of the 22 cards fits, one lemma for each. A new card needs its record and
its lemma; the invariant stays.

**The write path over the link.** `LinkImplemented` says that `WriteSafety` implements
`SwitchLink` but for the restarts, so that the permit (`PathPermitCorrect`) and the order of
service (`PathInOrder`) hold for the handlers, and not only for the tasks of the model
`link`. `AckCorrect` says what a success is worth: nothing of the write is on its way any
more; it took effect, or the switch refused it in a way that the endpoint does not know.
That it took effect cannot be proved, as the code does not make sure of it.

**The tab.** LiveCorrect and PillCorrect are theorems of `LiveSpec`, the hook alone,
ReadYourWritesCorrect of `Spec`, the pages alone; `TabParts` carries both over to the
model that TLC checks.

**The safety halves of the liveness properties.** Liveness needs fairness and stays
with TLC, on small instances. What it rests on is proved for every instance: that something
can always move, and that each move is one forward.

| Liveness (TLC) | Proved |
|---|---|
| EveryWaiterServed | NoDeadlock: a waiter is behind a holder who can send, fail or find the transport closed. MovesUpCorrect: each change of hands brings every waiter closer |
| LogoutDrains | ClosedCorrect: a closed transport stays closed, gets no new call, and no call that waited sends through it |
| AskerAnswered | AskersCorrect, AskersMoveUpCorrect: the same two for the lock of the health probe |
| ShutdownCloses | DownCorrect: nothing is open when `lifespan()` returns. GoneCorrect: what was closed is not opened again |
| DownSwitchLeftAlone | CountCorrect: only a poll that succeeds clears the failures of a loop that goes on, and one that runs has some to spare |
| HangUpNoticed, SubscriberServed | PollsCorrect: a subscriber has a loop. CloseCorrect: nothing follows the close sentinel in a queue |

DownIsClosed and the properties of the last table are stated in the proof modules only:
no run repeats them.

**Only model-checked:** the eight liveness properties (EveryWaiterServed, LogoutDrains,
DownSwitchLeftAlone, HangUpNoticed, SubscriberServed, ShutdownCloses, AskerAnswered,
ExpiryNoticed), which are out of the prover's reach as it has no rule for ENABLED under
WF and SF; and the five violations. Every safety property that a run checks is proved.

## 5. Abstractions and limits

* Each write operation is one HTTP request; of the writes that send several, the card
  that enables and disables ports is in `Cards`.
* In `WriteSafety` backups are only added; deletion is in `BackupStore`.
* A session that ended does not come back except by Restart.
* `AckedIsKept` exempts a backup whose deletion was requested by name: a deletion
  that arrives in the second in which the name is chosen again may remove the new
  backup, which is what was asked for by name. `NeverRewritten` allows it as well: that
  loss is a listed hazard which no property excludes.
* A crash is one of the process, not of the machine.
* `LandsAsShown` and `LockoutWarned` are about an operator who is alone since the card
  read: a card compares with what it read, and the API takes what is sent last.
* `LandsAsShown` is about what the inputs show and the switch reports. It passes over
  blanks at the ends of a text (`SystemInfoCard.tsx:49` lands a shown " a " as "a"), and
  over what is sent besides: the sources of the monitor, of which one that became the
  destination is sent without a checkbox (`MonitorCard.tsx:72`), and the certificate mode,
  which has no input (`WebAccessCard.tsx:55`).
* `UntouchedAsCarried` shows that what was not touched is sent as the card's record
  carries it, through refetches, other rows and earlier edits. Five records carry
  something else than what was read, as the code does: the name of the system goes
  trimmed, so that a new location rewrites a name with blanks at its ends (what
  `PortConfigTable.tsx:207-208` calls audit F7 and avoids); a feature that is not reported
  is written as off; the mode `Limited` of a port is written as Continuous and a limit of
  zero as one (`PerPortSecurityCard.tsx:43-53`); the certificate mode is always 2; and the
  policy of a codepoint is edited from its row. It also leaves out the flow control that
  a half-duplex mode forces off.
* A success does not mean that a write took effect: see `Verdict`.
* The port page, its queries and the live chart are never mounted by the routes; only
  the hook behind the chart is modelled.
* `SendsAccepted` leaves out the two CoS tables, whose Add button is enabled before
  the row is complete: the API answers such a row with an error.

### Not modelled

* Parsers and encoders (`procurve_client/parsing.py`, `operations/*`): functions on strings
  that meet no other actor. What their verdict makes of a write is in `WriteSafety`.
* Field types, ranges and formats of the data models: each is a check of one value.
* The login throttle and the rate arithmetic of the poll loop: their hazards are a
  float that overflows and a counter that is taken for one that wrapped, each a line
  that fails for one input and in no order of steps. Listed under `hazards`.
* Read endpoints: one call through the link, for which a task of `SwitchLink` stands.
* CSRF, security headers, error mapping, static files, logging: they decorate a request
  or an answer and keep no state.
* Pages and charts that only show: layout, formats and drawing. What they read and when
  is in `Console`, except for the port page, which is never mounted.
* Downloads and diffs of backups, and `load` and `get_meta` in the store: they change
  nothing.
* The generated schema of the API, the research notes and captures, containers and CI:
  no code of the program that runs.

## 6. Plan

1. `PortTraffic` over `SwitchLink`, so that a poll competes for the permit with writes,
   and `LiveHook` against `PortTraffic` (a hidden tab stops the polling of the switch).
2. `Console` over `Desk`: a card that unmounts under its own write.
3. The pure functions against reference definitions: tilde streams, port masks, the
   verdicts of the loose parsers, the delay of the throttle.
4. Proofs: `BackupStore` as an implementation of a set of backups that are added and
   deleted as a whole, and `PortTraffic` of a publisher that each subscriber hears of
   until it is told to close.
