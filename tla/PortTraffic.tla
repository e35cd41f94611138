---------------------------- MODULE PortTraffic -----------------------------
(***************************************************************************)
(* app/ws/port_traffic.py: one poll loop of the process reads the port     *)
(* counters of the switch and fans the frames out to the WebSocket         *)
(* handlers subscribed to it, each through a bounded queue.                *)
(*                                                                         *)
(* Sockets are the handlers, one for each connection, Sessions the login   *)
(* sessions they were opened with.  QueueMax is _QUEUE_MAXSIZE,            *)
(* MaxFailures is _MAX_CONSECUTIVE_FAILURES.  A poll is one call of        *)
(* get_port_counters, over the link that SwitchLink models; a cancelled    *)
(* poll loop has no further effect on the broadcaster and is not kept.     *)
(* late and outcome are history variables.                                 *)
(***************************************************************************)
EXTENDS Naturals, Sequences

CONSTANTS Sockets, Sessions, QueueMax, MaxFailures

ASSUME TrafficAssumption ==
    /\ Sessions # {}
    /\ QueueMax \in Nat \ {0}
    /\ MaxFailures \in Nat \ {0}

VARIABLES
    session,    \* session[s]: live, or ended by a logout or the expiry
    sock,       \* sock[k]: where the handler is, the session it was opened with
    gone,       \* gone[k]: the client has hung up
    queue,      \* queue[k]: frames and the _CLOSE sentinel
    subs,       \* the keys of _subscribers
    poller,     \* the poll loop: none, due for its next round, or polling
    failures,   \* consecutive failures of the loop
    late,       \* late[k]: frames queued for k after its session had ended
    outcome     \* how the last poll ended

vars == <<session, sock, gone, queue, subs, poller, failures, late, outcome>>

Connected == {"accepting", "get", "send", "closing"}

TypeOK ==
    /\ session \in [Sessions -> {"live", "ended"}]
    /\ sock \in [Sockets -> [st: Connected \cup {"new", "closed"}, via: Sessions]]
    /\ gone \in [Sockets -> BOOLEAN]
    /\ queue \in [Sockets -> Seq({"frame", "close"})]
    /\ \A k \in Sockets : Len(queue[k]) <= QueueMax
    /\ subs \subseteq Sockets
    /\ poller \in {"none", "due", "polling"}
    /\ failures \in 0..MaxFailures
    /\ late \in [Sockets -> Nat]
    /\ outcome \in {"none", "ok", "failed"}

Init ==
    /\ session = [s \in Sessions |-> "live"]
    /\ sock \in [Sockets -> [st: {"new"}, via: Sessions]]
    /\ gone = [k \in Sockets |-> FALSE]
    /\ queue = [k \in Sockets |-> << >>]
    /\ subs = {}
    /\ poller = "none"
    /\ failures = 0
    /\ late = [k \in Sockets |-> 0]
    /\ outcome = "none"

-----------------------------------------------------------------------------
(***************************************************************************)
(* The broadcaster.                                                        *)
(***************************************************************************)
\* _lookup_session, and the test of _pick_transport: the session of k is live.
Valid(k) == session[sock[k].via] = "live"

\* Variant with a defect: the queue has no bound.
PushAlways(q, item) == Append(q, item)

\* _push: put_nowait, with QueueFull suppressed.
Push(q, item) == IF Len(q) < QueueMax THEN Append(q, item) ELSE q

\* The item is pushed to every handler of K.
PushAll(K, item) ==
    queue' = [k \in Sockets |-> IF k \in K THEN Push(queue[k], item) ELSE queue[k]]

\* subscribe: the first subscriber starts the loop.
SubscribeOnly(k) ==
    /\ subs' = subs \cup {k}
    /\ UNCHANGED <<poller, failures>>

Subscribe(k) ==
    /\ subs' = subs \cup {k}
    /\ IF poller = "none"
       THEN poller' = "due" /\ failures' = 0
       ELSE UNCHANGED <<poller, failures>>

\* unsubscribe: the last subscriber cancels it.
Unsubscribe(k) ==
    /\ subs' = subs \ {k}
    /\ poller' = IF subs' = {} THEN "none" ELSE poller
    /\ UNCHANGED failures

\* Variant with a defect: the check stops at the first subscriber still valid.
KickFirst(K) == IF \E k \in subs : Valid(k) THEN K = {} ELSE K = subs

\* _pick_transport tells the subscribers whose session ended to close.
Kick(K) == K = {k \in subs : ~Valid(k)}

\* The start of a round: kick, then poll over a valid subscriber, or stop.
Tick ==
    /\ poller = "due"
    /\ \E K \in SUBSET subs :
        /\ Kick(K)
        /\ PushAll(K, "close")
        /\ subs' = subs \ K
    /\ poller' = IF subs' = {} THEN "none" ELSE "polling"
    /\ UNCHANGED <<session, sock, gone, failures, late, outcome>>

\* The counters have arrived: a frame for everyone, and sleep.
PollOk ==
    /\ poller = "polling"
    /\ PushAll(subs, "frame")
    /\ late' = [k \in Sockets |->
                  IF k \in subs /\ ~Valid(k) THEN late[k] + 1 ELSE late[k]]
    /\ failures' = 0
    /\ poller' = "due"
    /\ outcome' = "ok"
    /\ UNCHANGED <<session, sock, gone, subs>>

\* Variant with a defect: a failed poll is not counted.
PollFailsUncounted ==
    /\ poller = "polling"
    /\ outcome' = "failed"
    /\ poller' = "due"
    /\ UNCHANGED <<session, sock, gone, queue, subs, failures, late>>

\* The poll fails (the switch, the link, a transport closed by a logout): sleep,
\* or close everyone and stop after MaxFailures in a row.
PollFails ==
    /\ poller = "polling"
    /\ outcome' = "failed"
    /\ IF failures + 1 >= MaxFailures
       THEN /\ PushAll(subs, "close")
            /\ subs' = {}
            /\ poller' = "none"
            /\ failures' = 0
       ELSE /\ poller' = "due"
            /\ failures' = failures + 1
            /\ UNCHANGED <<queue, subs>>
    /\ UNCHANGED <<session, sock, gone, late>>

-----------------------------------------------------------------------------
(***************************************************************************)
(* A handler.                                                              *)
(***************************************************************************)
\* The cookie is checked before the socket is accepted.
Open(k) ==
    /\ sock[k].st = "new"
    /\ sock' = [sock EXCEPT ![k].st = IF Valid(k) THEN "accepting" ELSE "closed"]
    /\ UNCHANGED <<session, gone, queue, subs, poller, failures, late, outcome>>

\* accept() has returned: the session may have ended meanwhile.
Accepted(k) ==
    /\ sock[k].st = "accepting"
    /\ sock' = [sock EXCEPT ![k].st = "get"]
    /\ Subscribe(k)
    /\ UNCHANGED <<session, gone, queue, late, outcome>>

\* accept() raises, or the handler is cancelled in it: nothing is subscribed yet.
AcceptFails(k) ==
    /\ sock[k].st = "accepting"
    /\ sock' = [sock EXCEPT ![k].st = "closed"]
    /\ UNCHANGED <<session, gone, queue, subs, poller, failures, late, outcome>>

\* q.get() returns a frame to send, or the sentinel.
Get(k) ==
    /\ sock[k].st = "get"
    /\ queue[k] # << >>
    /\ queue' = [queue EXCEPT ![k] = Tail(@)]
    /\ sock' = [sock EXCEPT ![k].st = IF Head(queue[k]) = "frame" THEN "send" ELSE "closing"]
    /\ UNCHANGED <<session, gone, subs, poller, failures, late, outcome>>

\* send_json returns.
Sent(k) ==
    /\ sock[k].st = "send"
    /\ ~gone[k]
    /\ sock' = [sock EXCEPT ![k].st = "get"]
    /\ UNCHANGED <<session, gone, queue, subs, poller, failures, late, outcome>>

\* Variant with a defect: only a handler that was told to close unsubscribes.
EndsWithoutUnsubscribe(k) ==
    /\ \/ sock[k].st = "closing"
       \/ sock[k].st \in {"get", "send"}
    /\ sock' = [sock EXCEPT ![k].st = "closed"]
    /\ IF sock[k].st = "closing" THEN Unsubscribe(k) ELSE UNCHANGED <<subs, poller, failures>>
    /\ UNCHANGED <<session, gone, queue, late, outcome>>

\* The finally clause: after the close, after a send to a client that hung up, or
\* when the handler is cancelled.
Ends(k) ==
    /\ sock[k].st \in {"get", "send", "closing"}
    /\ sock' = [sock EXCEPT ![k].st = "closed"]
    /\ Unsubscribe(k)
    /\ UNCHANGED <<session, gone, queue, late, outcome>>

Closed(k) == sock[k].st = "closing" /\ Ends(k)
SendFails(k) == sock[k].st = "send" /\ gone[k] /\ Ends(k)
Cancelled(k) == sock[k].st \in {"get", "send"} /\ Ends(k)

-----------------------------------------------------------------------------
(***************************************************************************)
(* The clients and the sessions.                                           *)
(***************************************************************************)
HangUp(k) ==
    /\ sock[k].st \in Connected
    /\ ~gone[k]
    /\ gone' = [gone EXCEPT ![k] = TRUE]
    /\ UNCHANGED <<session, sock, queue, subs, poller, failures, late, outcome>>

EndSession(s) ==
    /\ session[s] = "live"
    /\ session' = [session EXCEPT ![s] = "ended"]
    /\ UNCHANGED <<sock, gone, queue, subs, poller, failures, late, outcome>>

-----------------------------------------------------------------------------
Next ==
    \/ Tick \/ PollOk \/ PollFails
    \/ \E k \in Sockets :
        \/ Open(k) \/ Accepted(k) \/ AcceptFails(k) \/ Get(k) \/ Sent(k)
        \/ Closed(k) \/ SendFails(k) \/ Cancelled(k) \/ HangUp(k)
    \/ \E s \in Sessions : EndSession(s)

\* The event loop resumes what can go on, a poll ends (SwitchLink), and a send
\* ends or fails: the server drains the connection or drops it.
TrafficFairness ==
    /\ WF_vars(Tick)
    /\ WF_vars(PollOk \/ PollFails)
    /\ \A k \in Sockets :
        /\ WF_vars(Accepted(k) \/ AcceptFails(k))
        /\ WF_vars(Get(k))
        /\ WF_vars(Sent(k) \/ SendFails(k))
        /\ WF_vars(Closed(k))

Spec == Init /\ [][Next]_vars
FairSpec == Spec /\ TrafficFairness

-----------------------------------------------------------------------------
(***************************************************************************)
(* Properties.                                                             *)
(***************************************************************************)
\* The loop runs exactly while somebody is subscribed, across every kick, hang-up,
\* give-up and late accept: an idle app sends no traffic, and nobody waits on a
\* loop that has stopped.  A subscriber is a handler that still reads its queue.
PollsWhenSubscribed ==
    /\ subs # {} <=> poller # "none"
    /\ \A k \in subs : sock[k].st \in {"get", "send"}

\* port_traffic.py:24-28: a session that ended is dropped at the next round: its
\* socket gets at most the one frame of the poll that was under way.
OneLateFrame == \A k \in Sockets : late[k] <= 1

\* port_traffic.py:21-23: a switch that answers no more is left alone, however
\* subscribers come and go.
DownSwitchLeftAlone == <>[](poller = "none") \/ []<>(outcome = "ok")

\* A client that hung up is noticed: its handler does not stay subscribed and
\* keep the loop polling the switch.
HangUpNoticed == \A k \in Sockets : gone[k] ~> k \notin subs

\* A subscriber that waits for a frame gets one, or is told to close.
SubscriberServed ==
    \A k \in Sockets : k \in subs /\ queue[k] = << >> ~> queue[k] # << >> \/ sock[k].st = "closed"

\* port_traffic.py:24-25: "an expired or logged-out session is kicked (1008)
\* within one interval".
KickedIsClosed ==
    \A k \in Sockets : sock[k].st \in Connected /\ ~Valid(k) ~> sock[k].st = "closed"
=============================================================================
