----------------------------- MODULE SwitchLink -----------------------------
(***************************************************************************)
(* procurve_client/transport.py: every coroutine of the process that talks *)
(* to the switch goes through ProcurveTransport.get / post, which take one *)
(* permit of an asyncio.Semaphore shared by all the sessions of a switch   *)
(* host.  Tasks are those coroutines (HTTP handlers, the poll loop, the    *)
(* health probe), Sessions the transports they call through, Ops the       *)
(* requests a task may have outstanding at once: a bound on how many of    *)
(* its requests can be abandoned at the switch at the same time.           *)
(*                                                                         *)
(* The switch is external.  A request that was sent is queued at the       *)
(* switch; the switch answers it or it is lost.  A caller that times out   *)
(* or is cancelled frees the permit and leaves its request behind.         *)
(***************************************************************************)
EXTENDS FairLock, Naturals, FiniteSets

CONSTANTS Tasks, Sessions, Ops

ASSUME LinkAssumption ==
    /\ NoTask \notin Tasks
    /\ Sessions # {}
    /\ Ops # {}

VARIABLES
    client,     \* client[s]: the httpx client of transport s, open or closed
    sem,        \* the host semaphore: who holds the permit, who waits (FIFO)
    call,       \* call[t]: what task t is doing in get() / post()
    wire        \* wire[t][o]: the request o of task t as the switch sees it

linkVars == <<client, sem, call, wire>>

Idle == [st |-> "idle"]
CallState == [st: {"waiting", "granted", "sent"}, via: Sessions, op: Ops]

TypeOK ==
    /\ client \in [Sessions -> {"open", "closed"}]
    /\ sem \in [holder: Tasks \cup {NoTask}, queue: Seq(Tasks)]
    /\ call \in [Tasks -> CallState \cup {Idle}]
    /\ wire \in [Tasks -> [Ops -> {"none", "queued", "answered"}]]

Init ==
    /\ client = [s \in Sessions |-> "open"]
    /\ sem = Free
    /\ call = [t \in Tasks |-> Idle]
    /\ wire = [t \in Tasks |-> [o \in Ops |-> "none"]]

-----------------------------------------------------------------------------
\* The state of call t once the permit has moved from sem to s: the task that
\* was handed the permit is granted, whatever queue position it had before.
Granted(c, s) ==
    [t \in Tasks |-> IF s.holder = t /\ c[t].st = "waiting"
                     THEN [c[t] EXCEPT !.st = "granted"]
                     ELSE c[t]]

\* The permit is freed by task t, whose call ends.
EndCall(t) ==
    /\ sem' = Leave(sem, t)
    /\ call' = Granted([call EXCEPT ![t] = Idle], sem')

\* The permit is freed by task t, which at once starts its next request.
EndCallAndCall(t, s, o) ==
    /\ sem' = Acquire(Release(sem), t)
    /\ call' = Granted([call EXCEPT ![t] = [st |-> "waiting", via |-> s, op |-> o]],
                       sem')

-----------------------------------------------------------------------------
(***************************************************************************)
(* The calls of a task.                                                    *)
(***************************************************************************)
\* get()/post(): _require_client, then the permit.
Call(t, s, o) ==
    /\ call[t] = Idle
    /\ wire[t][o] = "none"
    /\ client[s] = "open"
    /\ sem' = Acquire(sem, t)
    /\ call' = Granted([call EXCEPT ![t] = [st |-> "waiting", via |-> s, op |-> o]],
                       sem')
    /\ UNCHANGED <<client, wire>>

\* client.get / client.post with the permit held: the request leaves.
Send(t) ==
    /\ call[t].st = "granted"
    /\ client[call[t].via] = "open"
    /\ call' = [call EXCEPT ![t].st = "sent"]
    /\ wire' = [wire EXCEPT ![t][call[t].op] = "queued"]
    /\ UNCHANGED <<client, sem>>

\* Variant with a defect: the error leaves the permit taken.
SendOnClosedKeepsPermit(t) ==
    /\ call[t].st = "granted"
    /\ client[call[t].via] = "closed"
    /\ call' = [call EXCEPT ![t] = Idle]
    /\ UNCHANGED <<client, sem, wire>>

\* The client was captured while it was open and was closed by a logout before
\* the permit came: httpx refuses the request, the permit is freed.
SendOnClosed(t) ==
    /\ call[t].st = "granted"
    /\ client[call[t].via] = "closed"
    /\ EndCall(t)
    /\ UNCHANGED <<client, wire>>

\* The response of the current request of t has arrived.
ReplyArrived(t) ==
    /\ call[t].st = "sent"
    /\ wire[t][call[t].op] = "answered"

\* The response arrives and the caller goes on to something else.
Return(t) ==
    /\ ReplyArrived(t)
    /\ EndCall(t)
    /\ wire' = [wire EXCEPT ![t][call[t].op] = "none"]
    /\ UNCHANGED client

\* The response arrives and the caller, without yielding, requests o next.
ReturnAndCall(t, s, o) ==
    /\ ReplyArrived(t)
    /\ client[s] = "open"
    /\ o # call[t].op
    /\ wire[t][o] = "none"
    /\ EndCallAndCall(t, s, o)
    /\ wire' = [wire EXCEPT ![t][call[t].op] = "none"]
    /\ UNCHANGED client

\* httpx raises: the 15 s timeout, a broken connection, a client closed by a
\* logout.  A request the switch still has stays with the switch.  (First a
\* variant with a defect: a status nobody knows.)
AbandonedMarked(t) ==
    wire' = [wire EXCEPT ![t][call[t].op] = "abandoned"]

Abandoned(t) ==
    wire' = [wire EXCEPT ![t][call[t].op] = IF @ = "answered" THEN "none" ELSE @]

\* Variants with a defect: the request is sent again; the permit stays taken.
FailRetries(t) ==
    /\ call[t].st = "sent"
    /\ call' = [call EXCEPT ![t].st = "granted"]
    /\ Abandoned(t)
    /\ UNCHANGED <<client, sem>>

FailKeepsPermit(t) ==
    /\ call[t].st = "sent"
    /\ call' = [call EXCEPT ![t] = Idle]
    /\ Abandoned(t)
    /\ UNCHANGED <<client, sem>>

Fail(t) ==
    /\ call[t].st = "sent"
    /\ EndCall(t)
    /\ Abandoned(t)
    /\ UNCHANGED client

\* Variant with a defect: a waiter cancelled just after it was handed the permit
\* does not hand it on.
CancelKeepsPermit(t) ==
    /\ call[t] # Idle
    /\ IF call[t].st = "granted"
       THEN call' = [call EXCEPT ![t] = Idle] /\ UNCHANGED sem
       ELSE EndCall(t)
    /\ IF call[t].st = "sent" THEN Abandoned(t) ELSE UNCHANGED wire
    /\ UNCHANGED client

\* The coroutine is cancelled (a poll loop that lost its last subscriber, or the
\* shutdown of the server).
Cancel(t) ==
    /\ call[t] # Idle
    /\ EndCall(t)
    /\ IF call[t].st = "sent" THEN Abandoned(t) ELSE UNCHANGED wire
    /\ UNCHANGED client

\* __aexit__: a logout or an expiry closes the client of one session.
Close(s) ==
    /\ client[s] = "open"
    /\ client' = [client EXCEPT ![s] = "closed"]
    /\ UNCHANGED <<sem, call, wire>>

-----------------------------------------------------------------------------
(***************************************************************************)
(* The switch (external).                                                  *)
(***************************************************************************)
\* It finishes a request: the caller, if it still waits, will see the answer.
Serve(t, o) ==
    /\ wire[t][o] = "queued"
    /\ wire' = [wire EXCEPT ![t][o] =
                  IF call[t].st = "sent" /\ call[t].op = o THEN "answered" ELSE "none"]
    /\ UNCHANGED <<client, sem, call>>

\* It never gets the request, or drops it: no answer will come.
Lose(t, o) ==
    /\ wire[t][o] = "queued"
    /\ wire' = [wire EXCEPT ![t][o] = "none"]
    /\ UNCHANGED <<client, sem, call>>

-----------------------------------------------------------------------------
Next ==
    \/ \E t \in Tasks, s \in Sessions, o \in Ops : Call(t, s, o)
    \/ \E t \in Tasks, s \in Sessions, o \in Ops : ReturnAndCall(t, s, o)
    \/ \E t \in Tasks : Send(t) \/ SendOnClosed(t) \/ Return(t) \/ Fail(t) \/ Cancel(t)
    \/ \E s \in Sessions : Close(s)
    \/ \E t \in Tasks, o \in Ops : Serve(t, o) \/ Lose(t, o)

\* The event loop resumes a task that can go on, and a call that was sent ends
\* because a reply, an error or the timeout of the client ends it.
LinkFairness ==
    \A t \in Tasks :
        /\ WF_linkVars(Send(t) \/ SendOnClosed(t))
        /\ WF_linkVars(Fail(t))

Spec == Init /\ [][Next]_linkVars
FairSpec == Spec /\ LinkFairness

-----------------------------------------------------------------------------
(***************************************************************************)
(* Properties.                                                             *)
(***************************************************************************)
\* The semaphore and the coroutines agree in every interleaving of calls,
\* errors, timeouts, cancellations and logouts: at most one task is between
\* acquire and release, exactly the suspended tasks are queued, once each, and
\* nobody queues for a free permit (a permit lost on some exit path would).
PermitInv ==
    /\ \A t \in Tasks : call[t].st \in {"granted", "sent"} <=> sem.holder = t
    /\ {t \in Tasks : call[t].st = "waiting"} = ToSet(sem.queue)
    /\ IsInjective(sem.queue)
    /\ sem.holder = NoTask => sem.queue = << >>

\* No task that came later gets the permit before one that still waits, also
\* when waiters in between are cancelled: a poll loop cannot starve a write.
InOrder ==
    \A i, j \in DOMAIN sem.queue :
        i < j /\ call'[sem.queue[j]].st = "granted" => call'[sem.queue[i]].st # "waiting"

NoOvertaking == [][InOrder]_linkVars

\* A task that waits for the switch is not left waiting: whatever happens to
\* the tasks before it, the permit reaches it or it is cancelled.
EveryWaiterServed ==
    \A t \in Tasks : call[t].st = "waiting" ~> call[t].st # "waiting"

\* A logout ends every call made through the transport it closed, those still
\* queued for the permit with the closed client in hand included.
LogoutDrains ==
    \A s \in Sessions :
        client[s] = "closed" ~> \A t \in Tasks : call[t] # Idle => call[t].via # s

\* transport.py:15-20: "requests must never stack" at the switch, and the
\* no-stacking guarantee "is enforced HERE, structurally".
NoStacking ==
    Cardinality({r \in Tasks \X Ops : wire[r[1]][r[2]] = "queued"}) <= 1
=============================================================================
