------------------------- MODULE PortTrafficProofs --------------------------
(***************************************************************************)
(* Theorems about PortTraffic: for any number of sockets and sessions, any *)
(* queue size and any number of failures, the poll loop runs exactly while *)
(* somebody is subscribed, an ended session gets one late frame, a handler *)
(* is told to close once and last, and failures are counted to the end.    *)
(***************************************************************************)
EXTENDS PortTraffic, SequenceTheorems, TLAPS

-----------------------------------------------------------------------------
(***************************************************************************)
(* Lemmas about the queues.                                                *)
(***************************************************************************)
\* A push keeps a queue within its bound.
LEMMA PushBounded ==
    ASSUME NEW q \in Seq({"frame", "close"}), Len(q) <= QueueMax,
           NEW item \in {"frame", "close"}
    PROVE  /\ Push(q, item) \in Seq({"frame", "close"})
           /\ Len(Push(q, item)) <= QueueMax
<1>1. Len(q) \in Nat /\ QueueMax \in Nat
  BY LenProperties, TrafficAssumption
<1>2. /\ Append(q, item) \in Seq({"frame", "close"})
      /\ Len(Append(q, item)) = Len(q) + 1
  BY AppendProperties
<1> QED
  BY <1>1, <1>2 DEF Push

\* So does a push to many.
LEMMA PushAllBounded ==
    ASSUME TypeOK, NEW K, NEW item \in {"frame", "close"}, PushAll(K, item)
    PROVE  /\ queue' \in [Sockets -> Seq({"frame", "close"})]
           /\ \A k \in Sockets : Len(queue'[k]) <= QueueMax
           /\ \A k \in Sockets \ K : queue'[k] = queue[k]
           /\ item = "frame" =>
                \A k \in Sockets : queue[k] \in Seq({"frame"}) => queue'[k] \in Seq({"frame"})
<1>1. \A k \in Sockets : /\ Push(queue[k], item) \in Seq({"frame", "close"})
                         /\ Len(Push(queue[k], item)) <= QueueMax
  BY PushBounded DEF TypeOK
<1>2. ASSUME item = "frame", NEW k \in Sockets, queue[k] \in Seq({"frame"})
      PROVE  Push(queue[k], item) \in Seq({"frame"})
  <2>1. Append(queue[k], item) \in Seq({"frame"})
    BY <1>2, AppendProperties
  <2> QED
    BY <1>2, <2>1 DEF Push
<1> QED
  BY <1>1, <1>2 DEF PushAll, TypeOK

\* Taking the first item off a queue keeps it within its bound.
LEMMA TailBounded ==
    ASSUME NEW q \in Seq({"frame", "close"}), q # << >>, Len(q) <= QueueMax
    PROVE  /\ Tail(q) \in Seq({"frame", "close"})
           /\ Len(Tail(q)) <= QueueMax
           /\ q \in Seq({"frame"}) => Tail(q) \in Seq({"frame"}) /\ Head(q) = "frame"
<1>1. /\ Tail(q) \in Seq({"frame", "close"}) /\ Len(Tail(q)) = Len(q) - 1
      /\ q \in Seq({"frame"}) => Tail(q) \in Seq({"frame"}) /\ Head(q) \in {"frame"}
  BY HeadTailProperties
<1>2. Len(q) \in Nat /\ QueueMax \in Nat
  BY LenProperties, TrafficAssumption
<1> QED
  BY <1>1, <1>2

-----------------------------------------------------------------------------
(***************************************************************************)
(* The inductive invariant.                                                *)
(***************************************************************************)
\* A frame was queued late for k: its session has ended, its handler has
\* subscribed and will not again, and the next round drops it before it polls.
LateOnce(k) ==
    /\ late[k] <= 1
    /\ late[k] = 1 =>
        /\ ~Valid(k)
        /\ sock[k].st \notin {"new", "accepting"}
        /\ k \in subs => poller = "due"

\* Until it is dropped, a handler has no _CLOSE in its queue.
Unkicked(k) ==
    k \in subs \/ sock[k].st \in {"new", "accepting"} => queue[k] \in Seq({"frame"})

TrafficInv ==
    /\ TypeOK
    /\ PollsWhenSubscribed
    /\ \A k \in Sockets : LateOnce(k) /\ Unkicked(k)

LEMMA InitTraffic == Init => TrafficInv
<1> SUFFICES ASSUME Init PROVE TrafficInv
  OBVIOUS
<1>1. << >> \in Seq({"frame", "close"}) /\ Len(<< >>) = 0
  BY EmptySeq
<1>2. TypeOK
  BY <1>1, TrafficAssumption DEF Init, TypeOK, Connected
<1>3. PollsWhenSubscribed
  BY DEF Init, PollsWhenSubscribed
<1>4. \A k \in Sockets : LateOnce(k)
  <2>1. \A k \in Sockets : late[k] = 0
    BY DEF Init
  <2>2. 0 <= 1 /\ 0 # 1
    OBVIOUS
  <2> QED
    BY <2>1, <2>2, Zenon DEF LateOnce
<1>5. \A k \in Sockets : Unkicked(k)
  <2>1. << >> \in Seq({"frame"})
    BY EmptySeq
  <2> QED
    BY <2>1 DEF Init, Unkicked
<1> QED
  BY <1>2, <1>3, <1>4, <1>5 DEF TrafficInv

-----------------------------------------------------------------------------
(***************************************************************************)
(* Each step keeps it.                                                     *)
(***************************************************************************)
LEMMA TickStep ==
    ASSUME TrafficInv, Tick
    PROVE  TrafficInv'
<1> USE DEF TrafficInv
<1>1. PICK K \in SUBSET subs : /\ Kick(K)
                               /\ PushAll(K, "close")
                               /\ subs' = subs \ K
  BY DEF Tick
<1>2. /\ poller = "due"
      /\ poller' = IF subs' = {} THEN "none" ELSE "polling"
      /\ UNCHANGED <<session, sock, gone, failures, late, outcome>>
  BY DEF Tick
<1>3. TypeOK'
  <2>1. /\ queue' \in [Sockets -> Seq({"frame", "close"})]
        /\ \A k \in Sockets : Len(queue'[k]) <= QueueMax
    BY <1>1, PushAllBounded
  <2> QED
    BY <1>1, <1>2, <2>1 DEF TypeOK
<1>4. PollsWhenSubscribed'
  BY <1>1, <1>2 DEF PollsWhenSubscribed
<1>5. \A k \in Sockets : LateOnce(k)'
  BY <1>1, <1>2 DEF LateOnce, Kick, Valid
<1>6. \A k \in Sockets : Unkicked(k)'
  <2>1. \A k \in Sockets \ K : queue'[k] = queue[k]
    BY <1>1, PushAllBounded
  <2>2. \A k \in K : sock[k].st \notin {"new", "accepting"}
    BY <1>1 DEF PollsWhenSubscribed
  <2> QED
    BY <1>1, <1>2, <2>1, <2>2 DEF Unkicked
<1> QED
  BY <1>3, <1>4, <1>5, <1>6

LEMMA PollOkStep ==
    ASSUME TrafficInv, PollOk
    PROVE  TrafficInv'
<1> USE DEF TrafficInv
<1>1. /\ poller = "polling" /\ poller' = "due"
      /\ PushAll(subs, "frame")
      /\ failures' = 0
      /\ outcome' = "ok"
      /\ UNCHANGED <<session, sock, gone, subs>>
      /\ late' = [k \in Sockets |->
                    IF k \in subs /\ ~Valid(k) THEN late[k] + 1 ELSE late[k]]
  BY DEF PollOk
<1>2. TypeOK'
  <2>1. /\ queue' \in [Sockets -> Seq({"frame", "close"})]
        /\ \A k \in Sockets : Len(queue'[k]) <= QueueMax
    BY <1>1, PushAllBounded
  <2>2. late' \in [Sockets -> Nat]
    BY <1>1 DEF TypeOK
  <2> QED
    BY <1>1, <2>1, <2>2, TrafficAssumption DEF TypeOK
<1>3. PollsWhenSubscribed'
  BY <1>1 DEF PollsWhenSubscribed
<1>4. \A k \in Sockets : LateOnce(k)'
  <2> SUFFICES ASSUME NEW k \in Sockets PROVE LateOnce(k)'
    OBVIOUS
  <2>1. late[k] \in Nat /\ LateOnce(k) /\ (Valid(k)' <=> Valid(k))
    BY <1>1 DEF TypeOK, Valid
  <2>2. CASE k \in subs /\ ~Valid(k)
    <3>1. late[k] = 0
      BY <1>1, <2>1, <2>2 DEF LateOnce
    <3>2. late'[k] = 1
      BY <1>1, <2>2, <3>1
    <3> QED
      BY <1>1, <2>1, <2>2, <3>2 DEF LateOnce, PollsWhenSubscribed
  <2>3. CASE ~(k \in subs /\ ~Valid(k))
    BY <1>1, <2>1, <2>3 DEF LateOnce
  <2> QED
    BY <2>2, <2>3
<1>5. \A k \in Sockets : Unkicked(k)'
  BY <1>1, PushAllBounded DEF Unkicked
<1> QED
  BY <1>2, <1>3, <1>4, <1>5

LEMMA PollFailsStep ==
    ASSUME TrafficInv, PollFails
    PROVE  TrafficInv'
<1> USE DEF TrafficInv
<1>1. /\ poller = "polling"
      /\ outcome' = "failed"
      /\ UNCHANGED <<session, sock, gone, late>>
  BY DEF PollFails
<1>2. CASE failures + 1 >= MaxFailures
  <2>1. /\ PushAll(subs, "close")
        /\ subs' = {}
        /\ poller' = "none"
        /\ failures' = 0
    BY <1>2 DEF PollFails
  <2>2. /\ queue' \in [Sockets -> Seq({"frame", "close"})]
        /\ \A k \in Sockets : Len(queue'[k]) <= QueueMax
    BY <2>1, PushAllBounded
  <2>3. TypeOK'
    BY <1>1, <2>1, <2>2, TrafficAssumption DEF TypeOK
  <2>4. PollsWhenSubscribed'
    BY <2>1 DEF PollsWhenSubscribed
  <2>5. \A k \in Sockets : LateOnce(k)'
    BY <1>1, <2>1 DEF LateOnce, Valid
  <2>6. \A k \in Sockets : Unkicked(k)'
    <3>1. \A k \in Sockets \ subs : queue'[k] = queue[k]
      BY <2>1, PushAllBounded
    <3>2. \A k \in subs : sock[k].st \notin {"new", "accepting"}
      BY DEF PollsWhenSubscribed
    <3> QED
      BY <1>1, <2>1, <3>1, <3>2 DEF Unkicked
  <2> QED
    BY <2>3, <2>4, <2>5, <2>6
<1>3. CASE ~(failures + 1 >= MaxFailures)
  <2>1. poller' = "due" /\ failures' = failures + 1 /\ UNCHANGED <<queue, subs>>
    BY <1>3 DEF PollFails
  <2>2. TypeOK'
    BY <1>1, <1>3, <2>1, TrafficAssumption DEF TypeOK
  <2>3. PollsWhenSubscribed'
    BY <1>1, <2>1 DEF PollsWhenSubscribed
  <2>4. \A k \in Sockets : LateOnce(k)'
    BY <1>1, <2>1 DEF LateOnce, Valid
  <2>5. \A k \in Sockets : Unkicked(k)'
    BY <1>1, <2>1 DEF Unkicked
  <2> QED
    BY <2>2, <2>3, <2>4, <2>5
<1> QED
  BY <1>2, <1>3

\* The end of a handler, however it ends.
LEMMA EndsStep ==
    ASSUME TrafficInv, NEW k \in Sockets, Ends(k)
    PROVE  TrafficInv'
<1> USE DEF TrafficInv
<1>1. /\ sock' = [sock EXCEPT ![k].st = "closed"]
      /\ subs' = subs \ {k}
      /\ poller' = IF subs' = {} THEN "none" ELSE poller
      /\ UNCHANGED <<session, gone, queue, failures, late, outcome>>
  BY DEF Ends, Unsubscribe
<1>2. TypeOK'
  BY <1>1 DEF TypeOK, Connected
<1>3. PollsWhenSubscribed'
  BY <1>1 DEF PollsWhenSubscribed, TypeOK
<1>4. \A j \in Sockets : LateOnce(j)'
  BY <1>1 DEF LateOnce, Valid, TypeOK
<1>5. \A j \in Sockets : Unkicked(j)'
  BY <1>1 DEF Unkicked, TypeOK
<1> QED
  BY <1>2, <1>3, <1>4, <1>5

LEMMA AcceptedStep ==
    ASSUME TrafficInv, NEW k \in Sockets, Accepted(k)
    PROVE  TrafficInv'
<1> USE DEF TrafficInv
<1>1. /\ sock[k].st = "accepting"
      /\ sock' = [sock EXCEPT ![k].st = "get"]
      /\ subs' = subs \cup {k}
      /\ IF poller = "none"
         THEN poller' = "due" /\ failures' = 0
         ELSE UNCHANGED <<poller, failures>>
      /\ UNCHANGED <<session, gone, queue, late, outcome>>
  BY DEF Accepted, Subscribe
<1>2. TypeOK'
  <2>1. poller' \in {"none", "due", "polling"} /\ failures' \in 0..MaxFailures
    BY <1>1, TrafficAssumption DEF TypeOK
  <2>2. sock' \in [Sockets -> [st: Connected \cup {"new", "closed"}, via: Sessions]]
    BY <1>1 DEF TypeOK, Connected
  <2> QED
    BY <1>1, <2>1, <2>2 DEF TypeOK
<1>3. PollsWhenSubscribed'
  <2>1. poller' # "none" /\ subs' # {}
    BY <1>1
  <2>2. \A j \in subs' : sock'[j].st \in {"get", "send"}
    BY <1>1 DEF PollsWhenSubscribed, TypeOK
  <2> QED
    BY <2>1, <2>2 DEF PollsWhenSubscribed
<1>4. \A j \in Sockets : LateOnce(j)'
  <2> SUFFICES ASSUME NEW j \in Sockets PROVE LateOnce(j)'
    OBVIOUS
  <2>1. LateOnce(j) /\ (Valid(j)' <=> Valid(j)) /\ late'[j] = late[j]
    BY <1>1 DEF TypeOK, Valid
  <2>2. CASE j = k
    BY <1>1, <2>1, <2>2 DEF LateOnce, TypeOK
  <2>3. CASE j # k
    <3>1. sock'[j] = sock[j] /\ (j \in subs' <=> j \in subs)
      BY <1>1, <2>3 DEF TypeOK
    <3>2. j \in subs => poller' = poller
      BY <1>1 DEF PollsWhenSubscribed
    <3> QED
      BY <2>1, <3>1, <3>2 DEF LateOnce
  <2> QED
    BY <2>2, <2>3
<1>5. \A j \in Sockets : Unkicked(j)'
  BY <1>1 DEF Unkicked, TypeOK
<1> QED
  BY <1>2, <1>3, <1>4, <1>5

\* The other steps of a handler move it only, or take an item off its queue.
LEMMA HandlerStep ==
    ASSUME TrafficInv, NEW k \in Sockets,
           Open(k) \/ AcceptFails(k) \/ Get(k) \/ Sent(k) \/ HangUp(k)
    PROVE  TrafficInv'
<1> USE DEF TrafficInv
<1>1. CASE Open(k)
  <2>1. TypeOK' BY <1>1 DEF Open, TypeOK, Connected
  <2>2. PollsWhenSubscribed' BY <1>1 DEF Open, PollsWhenSubscribed, TypeOK
  <2>3. \A j \in Sockets : LateOnce(j)' BY <1>1 DEF Open, LateOnce, Valid, TypeOK
  <2>4. \A j \in Sockets : Unkicked(j)' BY <1>1 DEF Open, Unkicked, TypeOK
  <2> QED BY <2>1, <2>2, <2>3, <2>4
<1>2. CASE AcceptFails(k)
  <2>1. TypeOK' BY <1>2 DEF AcceptFails, TypeOK, Connected
  <2>2. PollsWhenSubscribed' BY <1>2 DEF AcceptFails, PollsWhenSubscribed, TypeOK
  <2>3. \A j \in Sockets : LateOnce(j)' BY <1>2 DEF AcceptFails, LateOnce, Valid, TypeOK
  <2>4. \A j \in Sockets : Unkicked(j)' BY <1>2 DEF AcceptFails, Unkicked, TypeOK
  <2> QED BY <2>1, <2>2, <2>3, <2>4
<1>3. CASE Get(k)
  <2>1. /\ sock[k].st = "get" /\ queue[k] # << >>
        /\ queue' = [queue EXCEPT ![k] = Tail(@)]
        /\ sock' = [sock EXCEPT ![k].st = IF Head(queue[k]) = "frame" THEN "send" ELSE "closing"]
        /\ UNCHANGED <<session, gone, subs, poller, failures, late, outcome>>
    BY <1>3 DEF Get
  <2>2. /\ Tail(queue[k]) \in Seq({"frame", "close"})
        /\ Len(Tail(queue[k])) <= QueueMax
        /\ queue[k] \in Seq({"frame"}) =>
             Tail(queue[k]) \in Seq({"frame"}) /\ Head(queue[k]) = "frame"
    BY <2>1, TailBounded DEF TypeOK
  <2>3. TypeOK' BY <2>1, <2>2 DEF TypeOK, Connected
  <2>4. PollsWhenSubscribed' BY <2>1, <2>2 DEF PollsWhenSubscribed, Unkicked, TypeOK
  <2>5. \A j \in Sockets : LateOnce(j)' BY <2>1 DEF LateOnce, Valid, TypeOK
  <2>6. \A j \in Sockets : Unkicked(j)' BY <2>1, <2>2 DEF Unkicked, TypeOK
  <2> QED BY <2>3, <2>4, <2>5, <2>6
<1>4. CASE Sent(k)
  <2>1. TypeOK' BY <1>4 DEF Sent, TypeOK, Connected
  <2>2. PollsWhenSubscribed' BY <1>4 DEF Sent, PollsWhenSubscribed, TypeOK
  <2>3. \A j \in Sockets : LateOnce(j)' BY <1>4 DEF Sent, LateOnce, Valid, TypeOK
  <2>4. \A j \in Sockets : Unkicked(j)' BY <1>4 DEF Sent, Unkicked, TypeOK
  <2> QED BY <2>1, <2>2, <2>3, <2>4
<1>5. CASE HangUp(k)
  BY <1>5 DEF HangUp, TypeOK, PollsWhenSubscribed, LateOnce, Unkicked, Valid
<1> QED
  BY <1>1, <1>2, <1>3, <1>4, <1>5

LEMMA EndSessionStep ==
    ASSUME TrafficInv, NEW s \in Sessions, EndSession(s)
    PROVE  TrafficInv'
<1> USE DEF TrafficInv
<1>1. /\ session' = [session EXCEPT ![s] = "ended"]
      /\ UNCHANGED <<sock, gone, queue, subs, poller, failures, late, outcome>>
  BY DEF EndSession
<1>2. TypeOK'
  BY <1>1 DEF TypeOK
<1>3. PollsWhenSubscribed'
  BY <1>1 DEF PollsWhenSubscribed
<1>4. \A k \in Sockets : LateOnce(k)'
  BY <1>1 DEF LateOnce, Valid, TypeOK
<1>5. \A k \in Sockets : Unkicked(k)'
  BY <1>1 DEF Unkicked
<1> QED
  BY <1>2, <1>3, <1>4, <1>5

LEMMA TrafficStep == TrafficInv /\ [Next]_vars => TrafficInv'
<1> SUFFICES ASSUME TrafficInv, [Next]_vars PROVE TrafficInv'
  OBVIOUS
<1>1. CASE Tick BY <1>1, TickStep
<1>2. CASE PollOk BY <1>2, PollOkStep
<1>3. CASE PollFails BY <1>3, PollFailsStep
<1>4. ASSUME NEW k \in Sockets,
             Open(k) \/ AcceptFails(k) \/ Get(k) \/ Sent(k) \/ HangUp(k)
      PROVE  TrafficInv'
  BY <1>4, HandlerStep
<1>5. ASSUME NEW k \in Sockets, Accepted(k) PROVE TrafficInv'
  BY <1>5, AcceptedStep
<1>6. ASSUME NEW k \in Sockets, Closed(k) \/ SendFails(k) \/ Cancelled(k)
      PROVE  TrafficInv'
  BY <1>6, EndsStep DEF Closed, SendFails, Cancelled
<1>7. ASSUME NEW s \in Sessions, EndSession(s) PROVE TrafficInv'
  BY <1>7, EndSessionStep
<1>8. CASE UNCHANGED vars
  BY <1>8 DEF vars, TrafficInv, TypeOK, PollsWhenSubscribed, LateOnce, Unkicked, Valid
<1> QED
  BY <1>1, <1>2, <1>3, <1>4, <1>5, <1>6, <1>7, <1>8 DEF Next

LEMMA TrafficInvariant == Spec => []TrafficInv
<1>1. Init => TrafficInv
  BY InitTraffic
<1>2. TrafficInv /\ [Next]_vars => TrafficInv'
  BY TrafficStep
<1> QED
  BY <1>1, <1>2, PTL DEF Spec

-----------------------------------------------------------------------------
(***************************************************************************)
(* The theorems.                                                           *)
(***************************************************************************)
\* Every variable of the broadcaster keeps its type, and no queue of a subscriber
\* grows past _QUEUE_MAXSIZE, however slow its client is.
THEOREM TypeCorrect == Spec => []TypeOK
<1>1. TrafficInv => TypeOK
  BY DEF TrafficInv
<1> QED
  BY <1>1, TrafficInvariant, PTL

\* The poll loop runs exactly while somebody is subscribed: subscribe never leaves
\* a subscriber without a loop, and no loop outlives the last subscriber.
THEOREM PollsCorrect == Spec => []PollsWhenSubscribed
<1>1. TrafficInv => PollsWhenSubscribed
  BY DEF TrafficInv
<1> QED
  BY <1>1, TrafficInvariant, PTL

\* A session that ended gets at most the frame of the poll that was under way,
\* for any interleaving of logouts, kicks, accepts and failed polls.
THEOREM LateCorrect == Spec => []OneLateFrame
<1>1. TrafficInv => OneLateFrame
  BY DEF TrafficInv, LateOnce, OneLateFrame
<1> QED
  BY <1>1, TrafficInvariant, PTL

-----------------------------------------------------------------------------
(***************************************************************************)
(* A handler is told to close once, and last.                              *)
(***************************************************************************)
\* Nothing follows _CLOSE in a queue.
CloseLast(q) == \A i \in 1..Len(q) : q[i] = "close" => i = Len(q)

\* No frame is queued behind the _CLOSE of a handler, and one that closes its socket
\* has nothing left to read.
CloseIsLast ==
    \A k \in Sockets :
        /\ CloseLast(queue[k])
        /\ sock[k].st = "closing" => queue[k] = << >>

LEMMA PushedLast ==
    ASSUME NEW q \in Seq({"frame"}), NEW item \in {"frame", "close"}
    PROVE  CloseLast(Push(q, item))
<1>1. Len(q) \in Nat /\ \A i \in 1..Len(q) : q[i] = "frame"
  BY LenProperties, ElementOfSeq
<1>2. CloseLast(q)
  BY <1>1 DEF CloseLast
<1>3. CloseLast(Append(q, item))
  <2>1. q \in Seq({"frame", "close"})
    BY <1>1
  <2>2. /\ Len(Append(q, item)) = Len(q) + 1
        /\ \A i \in 1..Len(q) : Append(q, item)[i] = q[i]
    BY <2>1, AppendProperties
  <2> QED
    BY <1>1, <2>2 DEF CloseLast
<1> QED
  BY <1>2, <1>3 DEF Push

\* Only those are pushed to who were not told to close before.
LEMMA PushAllLast ==
    ASSUME TrafficInv, CloseIsLast, NEW K \in SUBSET subs, NEW item \in {"frame", "close"},
           PushAll(K, item), UNCHANGED sock
    PROVE  CloseIsLast'
<1> SUFFICES ASSUME NEW k \in Sockets
             PROVE  CloseLast(queue'[k]) /\ (sock[k].st = "closing" => queue'[k] = << >>)
  BY DEF CloseIsLast, CloseLast
<1>1. CASE k \in K
  <2>1. queue[k] \in Seq({"frame"}) /\ sock[k].st # "closing"
    BY <1>1 DEF TrafficInv, Unkicked, PollsWhenSubscribed
  <2>2. queue'[k] = Push(queue[k], item)
    BY <1>1 DEF PushAll
  <2> QED
    BY <2>1, <2>2, PushedLast
<1>2. CASE k \notin K
  <2>1. queue'[k] = queue[k]
    BY <1>2 DEF PushAll
  <2> QED
    BY <2>1 DEF CloseIsLast
<1> QED
  BY <1>1, <1>2

LEMMA GetLast ==
    ASSUME TrafficInv, CloseIsLast, NEW k \in Sockets, Get(k)
    PROVE  CloseIsLast'
<1> SUFFICES ASSUME NEW j \in Sockets
             PROVE  CloseLast(queue'[j]) /\ (sock'[j].st = "closing" => queue'[j] = << >>)
  BY DEF CloseIsLast, CloseLast
<1>1. /\ queue[k] # << >> /\ queue[k] \in Seq({"frame", "close"})
      /\ queue'[k] = Tail(queue[k])
      /\ sock'[k].st = IF Head(queue[k]) = "frame" THEN "send" ELSE "closing"
      /\ j # k => queue'[j] = queue[j] /\ sock'[j] = sock[j]
  BY DEF Get, TrafficInv, TypeOK
<1>2. CASE j # k
  BY <1>1, <1>2 DEF CloseIsLast
<1>3. CASE j = k
  <2> DEFINE q == queue[k]
             t == Tail(q)
  <2>1. /\ Len(q) \in Nat \ {0} /\ t \in Seq({"frame", "close"}) /\ Len(t) = Len(q) - 1
        /\ \A i \in 1..Len(t) : t[i] = q[i + 1]
        /\ Head(q) = q[1] /\ q[1] \in {"frame", "close"}
    BY <1>1, HeadTailProperties, LenProperties, EmptySeq, ElementOfSeq
  <2>2. CloseLast(q)
    BY DEF CloseIsLast
  <2> HIDE DEF q, t
  <2>3. CloseLast(t)
    BY <2>1, <2>2 DEF CloseLast
  <2>4. Head(q) = "close" => Len(t) = 0
    BY <2>1, <2>2 DEF CloseLast
  <2>5. Len(t) = 0 => t = << >>
    BY <2>1, EmptySeq
  <2> QED
    BY <1>1, <1>3, <2>1, <2>3, <2>4, <2>5 DEF q, t
<1> QED
  BY <1>2, <1>3

LEMMA CloseStep == TrafficInv /\ CloseIsLast /\ [Next]_vars => CloseIsLast'
<1> SUFFICES ASSUME TrafficInv, CloseIsLast, [Next]_vars PROVE CloseIsLast'
  OBVIOUS
<1>1. CASE Tick
  BY <1>1, PushAllLast DEF Tick
<1>2. CASE PollOk
  BY <1>2, PushAllLast DEF PollOk
<1>3. CASE PollFails
  <2>1. CASE PushAll(subs, "close")
    BY <1>3, <2>1, PushAllLast DEF PollFails
  <2>2. CASE UNCHANGED queue
    BY <1>3, <2>2 DEF PollFails, CloseIsLast, CloseLast
  <2> QED
    BY <1>3, <2>1, <2>2 DEF PollFails
<1>4. ASSUME NEW k \in Sockets, Get(k) PROVE CloseIsLast'
  BY <1>4, GetLast
<1>5. ASSUME NEW k \in Sockets,
             \/ Open(k) \/ Accepted(k) \/ AcceptFails(k) \/ Sent(k) \/ HangUp(k)
             \/ Closed(k) \/ SendFails(k) \/ Cancelled(k)
      PROVE  CloseIsLast'
  <2>1. UNCHANGED queue
    BY <1>5 DEF Open, Accepted, AcceptFails, Sent, HangUp, Closed, SendFails, Cancelled, Ends
  <2>2. \A j \in Sockets : sock'[j].st = "closing" => sock[j].st = "closing"
    BY <1>5 DEF Open, Accepted, AcceptFails, Sent, HangUp, Closed, SendFails, Cancelled, Ends,
       TrafficInv, TypeOK
  <2> QED
    BY <2>1, <2>2 DEF CloseIsLast, CloseLast
<1>6. ASSUME (\E s \in Sessions : EndSession(s)) \/ UNCHANGED vars PROVE CloseIsLast'
  BY <1>6 DEF EndSession, vars, CloseIsLast, CloseLast
<1> QED
  BY <1>1, <1>2, <1>3, <1>4, <1>5, <1>6 DEF Next

\* port_traffic.py:151-175: a kick, a give-up and the polls between them never queue
\* anything behind a _CLOSE, and no handler is told to close twice.
THEOREM CloseCorrect == Spec => []CloseIsLast
<1>1. CloseLast(<< >>)
  BY DEF CloseLast
<1>2. Init => \A k \in Sockets : queue[k] = << >>
  BY DEF Init
<1>3. Init => CloseIsLast
  BY <1>1, <1>2 DEF CloseIsLast
<1> QED
  BY <1>3, TrafficInvariant, CloseStep, PTL DEF Spec

-----------------------------------------------------------------------------
(***************************************************************************)
(* The count of failures.                                                  *)
(***************************************************************************)
\* A loop that runs has failures to spare, and only a poll that succeeds clears the
\* count of a loop that goes on: not a subscriber who comes, leaves or is kicked.
CountedToTheEnd ==
    /\ [](failures < MaxFailures)
    /\ [][poller # "none" /\ poller' # "none" =>
             failures' >= failures \/ (poller = "polling" /\ outcome' = "ok")]_vars

\* port_traffic.py:21-22: MaxFailures polls in a row that fail end the loop, however
\* subscribers come and go meanwhile.
THEOREM CountCorrect == Spec => CountedToTheEnd
<1>1. Init => failures < MaxFailures
  BY TrafficAssumption DEF Init
<1>2. TrafficInv /\ failures < MaxFailures /\ [Next]_vars =>
        /\ (failures < MaxFailures)'
        /\ [poller # "none" /\ poller' # "none" =>
               failures' >= failures \/ (poller = "polling" /\ outcome' = "ok")]_vars
  <2> SUFFICES ASSUME TrafficInv, failures < MaxFailures, [Next]_vars
               PROVE  /\ failures' < MaxFailures
                      /\ poller # "none" /\ poller' # "none" =>
                           failures' >= failures \/ (poller = "polling" /\ outcome' = "ok")
    OBVIOUS
  <2>1. failures \in Nat /\ MaxFailures \in Nat \ {0}
    BY TrafficAssumption DEF TrafficInv, TypeOK
  <2>2. CASE PollOk
    BY <2>1, <2>2 DEF PollOk
  <2>3. CASE PollFails
    BY <2>1, <2>3 DEF PollFails
  <2>4. ASSUME NEW k \in Sockets, Accepted(k)
        PROVE  /\ failures' < MaxFailures
               /\ poller # "none" => failures' = failures
    BY <2>1, <2>4 DEF Accepted, Subscribe
  <2>5. ASSUME NEW k \in Sockets, Closed(k) \/ SendFails(k) \/ Cancelled(k)
        PROVE  failures' = failures
    BY <2>5 DEF Closed, SendFails, Cancelled, Ends, Unsubscribe
  <2>6. ASSUME NEW k \in Sockets,
               Open(k) \/ AcceptFails(k) \/ Get(k) \/ Sent(k) \/ HangUp(k)
        PROVE  failures' = failures
    BY <2>6 DEF Open, AcceptFails, Get, Sent, HangUp
  <2>7. ASSUME Tick \/ (\E s \in Sessions : EndSession(s)) \/ UNCHANGED vars
        PROVE  failures' = failures
    BY <2>7 DEF Tick, EndSession, vars
  <2> QED
    BY <2>1, <2>2, <2>3, <2>4, <2>5, <2>6, <2>7 DEF Next
<1> QED
  BY <1>1, <1>2, TrafficInvariant, PTL DEF Spec, CountedToTheEnd
=============================================================================
