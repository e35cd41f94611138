-------------------------- MODULE SwitchLinkProofs --------------------------
(***************************************************************************)
(* Theorems about SwitchLink, for any number of tasks, sessions and        *)
(* requests: the semaphore of transport.py is a correct lock; who waits is *)
(* behind one that can go on, and moves up; nothing goes through a client  *)
(* that was closed.                                                        *)
(***************************************************************************)
EXTENDS SwitchLink, FairLockProofs

-----------------------------------------------------------------------------
(***************************************************************************)
(* The permit.  Sems and Calls are the typed values of sem and call;       *)
(* Match(s, c) is PermitInv of the semaphore s and the calls c.            *)
(***************************************************************************)
Sems == [holder: Tasks \cup {NoTask}, queue: Seq(Tasks)]
Calls == [Tasks -> CallState \cup {Idle}]

Match(s, c) ==
    /\ \A t \in Tasks : c[t].st \in {"granted", "sent"} <=> s.holder = t
    /\ \A t \in Tasks : c[t].st = "waiting" <=> t \in ToSet(s.queue)
    /\ IsInjective(s.queue)
    /\ s.holder = NoTask => s.queue = << >>

\* What the state of one call may be.
LEMMA CallStates ==
    ASSUME NEW c \in Calls, NEW t \in Tasks
    PROVE  /\ c[t] = Idle <=> c[t].st = "idle"
           /\ c[t] # Idle => c[t] \in CallState
           /\ c[t].st \in {"idle", "waiting", "granted", "sent"}
BY DEF Calls, CallState, Idle

\* Granting the permit changes the state of a call and nothing else.
LEMMA GrantedType ==
    ASSUME NEW c \in Calls, NEW s \in Sems
    PROVE  /\ Granted(c, s) \in Calls
           /\ \A t \in Tasks :
                Granted(c, s)[t].st = IF s.holder = t /\ c[t].st = "waiting"
                                      THEN "granted" ELSE c[t].st
<1>1. ASSUME NEW t \in Tasks, c[t].st = "waiting"
      PROVE  /\ [c[t] EXCEPT !.st = "granted"] \in CallState
             /\ [c[t] EXCEPT !.st = "granted"].st = "granted"
  BY <1>1 DEF Calls, CallState, Idle
<1>2. \A t \in Tasks : c[t] \in CallState \cup {Idle}
  BY DEF Calls
<1>3. \A t \in Tasks : Granted(c, s)[t] \in CallState \cup {Idle}
  BY <1>1, <1>2 DEF Granted
<1> QED
  BY <1>1, <1>3 DEF Granted, Calls

\* PermitInv is Match of the current semaphore and calls.
LEMMA PermitInvIsMatch ==
    ASSUME TypeOK
    PROVE  PermitInv <=> Match(sem, call)
<1>1. ToSet(sem.queue) \subseteq Tasks
  BY ElementOfSeq, LenProperties DEF TypeOK, ToSet
<1> QED
  BY <1>1 DEF PermitInv, Match

\* acquire() by a task that holds nothing keeps the semaphore and the calls in
\* agreement.
LEMMA AcquireMatches ==
    ASSUME NEW s \in Sems, NEW c \in Calls, Match(s, c),
           NEW t \in Tasks, c[t] = Idle,
           NEW r \in CallState, r.st = "waiting", NoTask \notin Tasks
    PROVE  /\ Acquire(s, t) \in Sems
           /\ Granted([c EXCEPT ![t] = r], Acquire(s, t)) \in Calls
           /\ Match(Acquire(s, t), Granted([c EXCEPT ![t] = r], Acquire(s, t)))
<1> DEFINE s2 == Acquire(s, t)
           c1 == [c EXCEPT ![t] = r]
           c2 == Granted(c1, s2)
<1>1. c[t].st = "idle" /\ s.holder # t /\ t \notin ToSet(s.queue)
  BY DEF Match, Idle
<1>2. /\ Append(s.queue, t) \in Seq(Tasks)
      /\ ToSet(Append(s.queue, t)) = ToSet(s.queue) \cup {t}
      /\ IsInjective(Append(s.queue, t))
  BY <1>1, AppendWaiter DEF Sems, Match
<1>3. s2 \in Sems
  BY <1>2 DEF Acquire, Sems
<1>4. c1 \in Calls /\ \A x \in Tasks : c1[x] = IF x = t THEN r ELSE c[x]
  BY DEF Calls
<1>5. /\ c2 \in Calls
      /\ \A x \in Tasks : c2[x].st = IF s2.holder = x /\ c1[x].st = "waiting"
                                     THEN "granted" ELSE c1[x].st
  BY <1>3, <1>4, GrantedType
<1>6. Match(s2, c2)
  <2> HIDE DEF c2
  <2>1. CASE s.holder = NoTask
    <3>1. s2.holder = t /\ s2.queue = s.queue /\ s.queue = << >>
      BY <2>1 DEF Acquire, Sems, Match
    <3>2. ToSet(s.queue) = {}
      BY <3>1 DEF ToSet
    <3> QED
      BY <1>4, <1>5, <2>1, <3>1, <3>2 DEF Match
  <2>2. CASE s.holder # NoTask
    <3>1. s2.holder = s.holder /\ s2.queue = Append(s.queue, t)
      BY <2>2 DEF Acquire, Sems
    <3>2. \A x \in Tasks : c2[x].st = c1[x].st
      <4>1. ASSUME NEW x \in Tasks, s2.holder = x PROVE c1[x].st # "waiting"
        BY <1>1, <1>4, <3>1, <4>1 DEF Match
      <4> QED
        BY <1>5, <4>1
    <3> QED
      BY <1>1, <1>2, <1>4, <2>2, <3>1, <3>2 DEF Match
  <2> QED
    BY <2>1, <2>2
<1> QED
  BY <1>3, <1>5, <1>6

\* A task that leaves (its call ended, was cancelled, or is about to start the
\* next) keeps them in agreement, and the permit goes to the first waiter.
LEMMA LeaveMatches ==
    ASSUME NEW s \in Sems, NEW c \in Calls, Match(s, c),
           NEW t \in Tasks, c[t] # Idle, NoTask \notin Tasks
    PROVE  /\ Leave(s, t) \in Sems
           /\ Granted([c EXCEPT ![t] = Idle], Leave(s, t)) \in Calls
           /\ Match(Leave(s, t), Granted([c EXCEPT ![t] = Idle], Leave(s, t)))
<1> DEFINE s2 == Leave(s, t)
           c1 == [c EXCEPT ![t] = Idle]
           c2 == Granted(c1, s2)
<1>1. c1 \in Calls /\ \A x \in Tasks : c1[x] = IF x = t THEN Idle ELSE c[x]
  BY DEF Calls
<1>2. c1[t].st = "idle" /\ \A x \in Tasks \ {t} : c1[x].st = c[x].st
  BY <1>1 DEF Idle
<1>3. ASSUME s2 \in Sems
      PROVE  /\ c2 \in Calls
             /\ \A x \in Tasks : c2[x].st = IF s2.holder = x /\ c1[x].st = "waiting"
                                            THEN "granted" ELSE c1[x].st
  <2> HIDE DEF s2, c1
  <2> QED
    BY <1>1, <1>3, GrantedType
<1>4. CASE s.holder = t /\ s.queue = << >>
  <2>1. s2 = [s EXCEPT !.holder = NoTask] /\ s2 \in Sems
    BY <1>4 DEF Leave, Release, Sems
  <2>2. s2.holder = NoTask /\ s2.queue = << >> /\ ToSet(s2.queue) = {}
    BY <1>4, <2>1 DEF Sems, ToSet
  <2>3. c2 \in Calls /\ \A x \in Tasks : c2[x].st = c1[x].st
    <3> HIDE DEF s2, c1, c2
    <3> QED
      BY <1>3, <2>1, <2>2
  <2>4. Match(s2, c2)
    <3> HIDE DEF s2, c2
    <3> QED
      BY <1>2, <1>4, <2>2, <2>3 DEF Match, IsInjective
  <2> QED
    BY <2>1, <2>3, <2>4
<1>5. CASE s.holder = t /\ s.queue # << >>
  <2> DEFINE h == Head(s.queue)
  <2>1. /\ h \in ToSet(s.queue)
        /\ h \in Tasks
        /\ Tail(s.queue) \in Seq(Tasks)
        /\ ToSet(Tail(s.queue)) = ToSet(s.queue) \ {h}
        /\ IsInjective(Tail(s.queue))
    BY <1>5, TailWaiters DEF Sems, Match
  <2>2. s2 = [holder |-> h, queue |-> Tail(s.queue)]
    BY <1>5 DEF Leave, Release
  <2>3. s2 \in Sems
    BY <2>1, <2>2 DEF Sems
  <2>4. c[h].st = "waiting" /\ c[t].st \in {"granted", "sent"} /\ h # t
    BY <1>5, <2>1 DEF Match
  <2>5. /\ c2 \in Calls
        /\ \A x \in Tasks : c2[x].st = IF x = h THEN "granted" ELSE c1[x].st
    <3>1. s2.holder = h
      BY <2>2
    <3> HIDE DEF s2, c1, c2, h
    <3> QED
      BY <1>2, <1>3, <2>3, <2>4, <3>1
  <2>6. s2.holder = h /\ s2.queue = Tail(s.queue) /\ h # NoTask
    BY <2>1, <2>2
  <2>7. Match(s2, c2)
    <3> HIDE DEF s2, c2, h
    <3>1. \A x \in Tasks : c2[x].st \in {"granted", "sent"} <=> s2.holder = x
      BY <1>2, <1>5, <2>5, <2>6 DEF Match
    <3>2. \A x \in Tasks : c2[x].st = "waiting" <=> x \in ToSet(s2.queue)
      BY <1>2, <2>1, <2>4, <2>5, <2>6 DEF Match
    <3> QED
      BY <2>1, <2>6, <3>1, <3>2 DEF Match
  <2> QED
    BY <2>3, <2>5, <2>7
<1>6. CASE s.holder # t
  <2>1. c[t].st = "waiting" /\ t \in ToSet(s.queue)
    BY <1>6, CallStates DEF Match
  <2> DEFINE q == RemoveFirst(s.queue, t)
  <2>2. q \in Seq(Tasks) /\ ToSet(q) = ToSet(s.queue) \ {t} /\ IsInjective(q)
    BY <2>1, RemoveWaiter DEF Sems, Match
  <2>3. s2 = [s EXCEPT !.queue = q] /\ s2 \in Sems /\ s2.holder = s.holder /\ s2.queue = q
    BY <1>6, <2>2 DEF Leave, Sems
  <2>4. s.holder # NoTask
    BY <2>1 DEF Match, ToSet
  <2>5. c2 \in Calls /\ \A x \in Tasks : c2[x].st = c1[x].st
    <3>1. ASSUME NEW x \in Tasks, s2.holder = x PROVE c1[x].st # "waiting"
      BY <1>2, <1>6, <2>3, <3>1 DEF Match
    <3> HIDE DEF s2, c1, c2, q
    <3> QED
      BY <1>3, <2>3, <3>1
  <2>6. Match(s2, c2)
    <3> HIDE DEF s2, c2, q
    <3> QED
      BY <1>2, <1>6, <2>2, <2>3, <2>4, <2>5 DEF Match
  <2> QED
    BY <2>3, <2>5, <2>6
<1> QED
  BY <1>4, <1>5, <1>6
-----------------------------------------------------------------------------
(***************************************************************************)
(* The inductive invariant: the types and PermitInv.  PermitInv is         *)
(* inductive once the types of the calls are known, because it speaks of   *)
(* the suspended tasks and of the order they wait in, not only of the      *)
(* holder: mutual exclusion alone would not survive a release.             *)
(***************************************************************************)
LinkInv == TypeOK /\ PermitInv

Clients == [Sessions -> {"open", "closed"}]
Wires == [Tasks -> [Ops -> {"none", "queued", "answered"}]]
Agree == sem \in Sems /\ call \in Calls /\ Match(sem, call)

LEMMA LinkInvSplit == LinkInv <=> client \in Clients /\ wire \in Wires /\ Agree
BY PermitInvIsMatch DEF LinkInv, TypeOK, Sems, Calls, Clients, Wires, Agree

LEMMA AgreeNext ==
    ASSUME sem' \in Sems, call' \in Calls, Match(sem', call')
    PROVE  Agree'
BY DEF Agree, Match

LEMMA LinkInvInit == Init => LinkInv
<1> SUFFICES ASSUME Init PROVE LinkInv
  OBVIOUS
<1>1. << >> \in Seq(Tasks) /\ ToSet(<< >>) = {} /\ IsInjective(<< >>)
  BY DEF ToSet, IsInjective
<1>2. Match(sem, call)
  BY <1>1, LinkAssumption DEF Init, Match, Idle, Free
<1> QED
  BY <1>1, <1>2, LinkInvSplit DEF Init, Free, Sems, Calls, Clients, Wires, Agree

\* A task without a call makes one: it takes the permit or waits for it.
LEMMA StartKeepsMatch ==
    ASSUME LinkInv, NEW t \in Tasks, call[t] = Idle, NEW s \in Sessions, NEW o \in Ops,
           sem' = Acquire(sem, t),
           call' = Granted([call EXCEPT ![t] = [st |-> "waiting", via |-> s, op |-> o]], sem')
    PROVE  Agree'
<1> DEFINE r == [st |-> "waiting", via |-> s, op |-> o]
<1>1. r \in CallState /\ r.st = "waiting"
  BY DEF CallState
<1>2. sem \in Sems /\ call \in Calls /\ Match(sem, call)
  BY LinkInvSplit DEF Agree
<1> HIDE DEF r
<1>3. /\ Acquire(sem, t) \in Sems
      /\ Granted([call EXCEPT ![t] = r], Acquire(sem, t)) \in Calls
      /\ Match(Acquire(sem, t), Granted([call EXCEPT ![t] = r], Acquire(sem, t)))
  BY <1>1, <1>2, AcquireMatches, LinkAssumption
<1> QED
  BY <1>3, AgreeNext DEF r

\* A call ends.
LEMMA EndCallKeepsMatch ==
    ASSUME LinkInv, NEW t \in Tasks, call[t] # Idle, EndCall(t)
    PROVE  Agree'
<1>1. sem \in Sems /\ call \in Calls /\ Match(sem, call)
  BY LinkInvSplit DEF Agree
<1>2. /\ Leave(sem, t) \in Sems
      /\ Granted([call EXCEPT ![t] = Idle], Leave(sem, t)) \in Calls
      /\ Match(Leave(sem, t), Granted([call EXCEPT ![t] = Idle], Leave(sem, t)))
  BY <1>1, LeaveMatches, LinkAssumption
<1> QED
  BY <1>2, AgreeNext DEF EndCall

\* A call ends and its task makes the next one.
LEMMA EndCallAndCallKeepsMatch ==
    ASSUME LinkInv, NEW t \in Tasks, sem.holder = t, NEW s \in Sessions, NEW o \in Ops,
           EndCallAndCall(t, s, o)
    PROVE  Agree'
<1> DEFINE r == [st |-> "waiting", via |-> s, op |-> o]
           s1 == Release(sem)
           c1 == Granted([call EXCEPT ![t] = Idle], s1)
           s2 == Acquire(s1, t)
<1>1. r \in CallState /\ r.st = "waiting"
  BY DEF CallState
<1>2. sem \in Sems /\ call \in Calls /\ Match(sem, call)
  BY LinkInvSplit DEF Agree
<1>3. call[t] # Idle
  BY <1>2, CallStates DEF Match
<1>4. Leave(sem, t) = s1
  BY DEF Leave
<1>5. s1 \in Sems /\ c1 \in Calls /\ Match(s1, c1)
  BY <1>2, <1>3, <1>4, LeaveMatches, LinkAssumption
<1>6. c1[t] = Idle
  BY <1>2 DEF Granted, Calls, Idle
<1>7. /\ s2 \in Sems
      /\ Granted([c1 EXCEPT ![t] = r], s2) \in Calls
      /\ Match(s2, Granted([c1 EXCEPT ![t] = r], s2))
  <2> HIDE DEF r, s1, c1
  <2> QED
    BY <1>1, <1>5, <1>6, AcquireMatches, LinkAssumption
<1>8. s1.holder # NoTask => s2.holder = s1.holder
  BY DEF Acquire
<1>9. Granted([c1 EXCEPT ![t] = r], s2) = Granted([call EXCEPT ![t] = r], s2)
  <2>1. ASSUME NEW x \in Tasks
        PROVE  Granted([c1 EXCEPT ![t] = r], s2)[x] = Granted([call EXCEPT ![t] = r], s2)[x]
    <3>1. CASE x = t
      BY <1>2, <1>5, <3>1 DEF Granted, Calls
    <3>2. CASE x # t
      <4>1. /\ [c1 EXCEPT ![t] = r][x] = c1[x]
            /\ [call EXCEPT ![t] = r][x] = call[x]
            /\ [call EXCEPT ![t] = Idle][x] = call[x]
        BY <1>2, <1>5, <3>2 DEF Calls
      <4>2. c1[x] = IF s1.holder = x /\ call[x].st = "waiting"
                    THEN [call[x] EXCEPT !.st = "granted"] ELSE call[x]
        BY <4>1 DEF Granted
      <4>3. CASE s1.holder = x /\ call[x].st = "waiting"
        <5>1. s2.holder = x
          BY <1>8, <4>3, LinkAssumption
        <5>2. c1[x].st = "granted"
          BY <1>2, <4>2, <4>3 DEF Calls, CallState, Idle
        <5> HIDE DEF r, s1, c1, s2
        <5> QED
          BY <4>1, <4>2, <4>3, <5>1, <5>2 DEF Granted
      <4>4. CASE ~(s1.holder = x /\ call[x].st = "waiting")
        <5> HIDE DEF r, s1, c1, s2
        <5> QED
          BY <4>1, <4>2, <4>4 DEF Granted
      <4> QED
        BY <4>3, <4>4
    <3> QED
      BY <3>1, <3>2
  <2> HIDE DEF r, s1, c1, s2
  <2> QED
    BY <2>1 DEF Granted
<1> QED
  BY <1>7, <1>9, AgreeNext DEF EndCallAndCall

\* What the handler of a reply or of an error does to the requests.
LEMMA AbandonedType ==
    ASSUME wire \in Wires, NEW t \in Tasks, Abandoned(t)
    PROVE  wire' \in Wires
BY DEF Abandoned, Wires

\* A step that leaves the permit alone and takes a granted call to sent.
LEMMA SendKeepsMatch ==
    ASSUME LinkInv, NEW t \in Tasks, Send(t)
    PROVE  Agree'
<1>1. sem \in Sems /\ call \in Calls /\ Match(sem, call)
  BY LinkInvSplit DEF Agree
<1>2. call[t] \in CallState /\ call[t].st = "granted"
  BY <1>1 DEF Send, Calls, Idle
<1>3. [call[t] EXCEPT !.st = "sent"] \in CallState /\ [call[t] EXCEPT !.st = "sent"].st = "sent"
  BY <1>2 DEF CallState
<1>4. call' = [call EXCEPT ![t] = [call[t] EXCEPT !.st = "sent"]] /\ sem' = sem
  BY DEF Send
<1>5. call' \in Calls /\ \A x \in Tasks \ {t} : call'[x] = call[x]
  BY <1>1, <1>3, <1>4 DEF Calls
<1>6. call'[t].st = "sent"
  BY <1>1, <1>3, <1>4 DEF Calls
<1> QED
  BY <1>1, <1>2, <1>4, <1>5, <1>6 DEF Agree, Match

\* Every action keeps the invariant.
LEMMA LinkInvStep == LinkInv /\ [Next]_linkVars => LinkInv'
<1> SUFFICES ASSUME LinkInv, [Next]_linkVars PROVE LinkInv'
  OBVIOUS
<1>0. client \in Clients /\ wire \in Wires /\ Agree
  BY LinkInvSplit
<1>1. SUFFICES client' \in Clients /\ wire' \in Wires /\ Agree'
  <2>1. ASSUME sem' \in Sems PROVE ToSet(sem'.queue) \subseteq Tasks
    BY <2>1, ElementOfSeq, LenProperties DEF Sems, ToSet
  <2> QED
    BY <2>1 DEF LinkInv, TypeOK, PermitInv, Match, Sems, Calls, Clients, Wires, Agree
<1>2. ASSUME NEW t \in Tasks, NEW s \in Sessions, NEW o \in Ops, Call(t, s, o)
      PROVE  client' \in Clients /\ wire' \in Wires /\ Agree'
  BY <1>0, <1>2, StartKeepsMatch DEF Call
<1>3. ASSUME NEW t \in Tasks, NEW s \in Sessions, NEW o \in Ops, ReturnAndCall(t, s, o)
      PROVE  client' \in Clients /\ wire' \in Wires /\ Agree'
  <2>1. sem.holder = t
    BY <1>0, <1>3 DEF ReturnAndCall, ReplyArrived, Agree, Match
  <2>2. Agree'
    BY <1>3, <2>1, EndCallAndCallKeepsMatch DEF ReturnAndCall
  <2> QED
    BY <1>0, <1>3, <2>2 DEF ReturnAndCall, Wires
<1>4. ASSUME NEW t \in Tasks, Send(t)
      PROVE  client' \in Clients /\ wire' \in Wires /\ Agree'
  BY <1>0, <1>4, SendKeepsMatch DEF Send, Wires
<1>5. ASSUME NEW t \in Tasks, SendOnClosed(t)
      PROVE  client' \in Clients /\ wire' \in Wires /\ Agree'
  <2>1. call[t] # Idle
    BY <1>5 DEF SendOnClosed, Idle
  <2> QED
    BY <1>0, <1>5, <2>1, EndCallKeepsMatch DEF SendOnClosed
<1>6. ASSUME NEW t \in Tasks, Return(t)
      PROVE  client' \in Clients /\ wire' \in Wires /\ Agree'
  <2>1. call[t] # Idle
    BY <1>6 DEF Return, ReplyArrived, Idle
  <2> QED
    BY <1>0, <1>6, <2>1, EndCallKeepsMatch DEF Return, Wires
<1>7. ASSUME NEW t \in Tasks, Fail(t)
      PROVE  client' \in Clients /\ wire' \in Wires /\ Agree'
  <2>1. call[t] # Idle
    BY <1>7 DEF Fail, Idle
  <2> QED
    BY <1>0, <1>7, <2>1, EndCallKeepsMatch, AbandonedType DEF Fail
<1>8. ASSUME NEW t \in Tasks, Cancel(t)
      PROVE  client' \in Clients /\ wire' \in Wires /\ Agree'
  BY <1>0, <1>8, EndCallKeepsMatch, AbandonedType DEF Cancel
<1>9. ASSUME NEW s \in Sessions, Close(s)
      PROVE  client' \in Clients /\ wire' \in Wires /\ Agree'
  BY <1>0, <1>9 DEF Close, Clients, Agree, Match
<1>10. ASSUME NEW t \in Tasks, NEW o \in Ops, Serve(t, o) \/ Lose(t, o)
       PROVE  client' \in Clients /\ wire' \in Wires /\ Agree'
  BY <1>0, <1>10 DEF Serve, Lose, Wires, Agree, Match
<1>11. CASE UNCHANGED linkVars
  BY <1>0, <1>11 DEF linkVars, Agree, Match
<1> QED
  BY <1>2, <1>3, <1>4, <1>5, <1>6, <1>7, <1>8, <1>9, <1>10, <1>11 DEF Next

\* Every state of the link is well-typed.
THEOREM TypeCorrect == Spec => []TypeOK
<1>1. LinkInv => TypeOK
  BY DEF LinkInv
<1> QED
  BY <1>1, LinkInvInit, LinkInvStep, PTL DEF Spec

\* transport.py:39-49, 110-150: for any number of tasks and sessions, and any
\* interleaving of requests, errors, timeouts, cancellations and logouts, one
\* task at most is between acquire and release, the suspended tasks are exactly
\* those queued, once each, and the permit is never free while one waits.
THEOREM PermitCorrect == Spec => []PermitInv
<1>1. LinkInv => PermitInv
  BY DEF LinkInv
<1> QED
  BY <1>1, LinkInvInit, LinkInvStep, PTL DEF Spec
-----------------------------------------------------------------------------
(***************************************************************************)
(* The order of service.                                                   *)
(***************************************************************************)
\* A task that was waiting and holds the permit after a step was the first one.
LEMMA NewHolder ==
    ASSUME LinkInv, [Next]_linkVars, NEW x \in Tasks,
           call[x].st = "waiting", sem'.holder = x
    PROVE  sem.queue # << >> /\ x = Head(sem.queue)
<1>1. sem \in Sems /\ call \in Calls /\ Match(sem, call)
  BY LinkInvSplit DEF Agree
<1>2. sem.holder # x /\ sem.holder # NoTask
  BY <1>1 DEF Match, ToSet
<1>3. ASSUME NEW t \in Tasks, sem' = Leave(sem, t) PROVE sem.queue # << >> /\ x = Head(sem.queue)
  BY <1>1, <1>2, <1>3, LinkAssumption DEF Leave, Release, Sems
<1>4. ASSUME NEW t \in Tasks, NEW s \in Sessions, NEW o \in Ops, Call(t, s, o)
      PROVE  FALSE
  BY <1>1, <1>2, <1>4 DEF Call, Acquire, Sems
<1>5. ASSUME NEW t \in Tasks, NEW s \in Sessions, NEW o \in Ops, ReturnAndCall(t, s, o)
      PROVE  sem.queue # << >> /\ x = Head(sem.queue)
  <2>1. t # x /\ sem' = Acquire(Release(sem), t)
    BY <1>5 DEF ReturnAndCall, ReplyArrived, EndCallAndCall
  <2>2. CASE sem.queue = << >>
    <3>1. Release(sem).holder = NoTask
      BY <1>1, <2>2 DEF Release, Sems
    <3>2. sem'.holder = t
      <4>1. Release(sem) = [sem EXCEPT !.holder = NoTask]
        BY <2>2 DEF Release
      <4> QED
        BY <1>1, <2>1, <3>1, <4>1 DEF Acquire, Sems
    <3> QED
      BY <2>1, <3>2
  <2>3. CASE sem.queue # << >>
    <3>1. Release(sem) = [holder |-> Head(sem.queue), queue |-> Tail(sem.queue)]
      BY <2>3 DEF Release
    <3>2. Head(sem.queue) # NoTask
      BY <1>1, <2>3, HeadTailProperties, LinkAssumption DEF Sems
    <3>3. sem'.holder = Head(sem.queue)
      BY <2>1, <3>1, <3>2 DEF Acquire
    <3> QED
      BY <2>3, <3>3
  <2> QED
    BY <2>2, <2>3
<1>6. CASE UNCHANGED sem
  BY <1>2, <1>6
<1> QED
  BY <1>3, <1>4, <1>5, <1>6
     DEF Next, linkVars, Send, SendOnClosed, Return, Fail, Cancel, EndCall, Close, Serve, Lose

LEMMA InOrderStep == LinkInv /\ [Next]_linkVars => [InOrder]_linkVars
<1> SUFFICES ASSUME LinkInv, [Next]_linkVars, LinkInv',
                    NEW i \in DOMAIN sem.queue, NEW j \in DOMAIN sem.queue,
                    i < j, call'[sem.queue[j]].st = "granted"
             PROVE  FALSE
  BY LinkInvStep DEF InOrder
<1>1. sem \in Sems /\ call \in Calls /\ Match(sem, call)
  BY LinkInvSplit DEF Agree
<1>2. /\ sem.queue \in Seq(Tasks)
      /\ i \in 1..Len(sem.queue)
      /\ j \in 1..Len(sem.queue)
      /\ Len(sem.queue) \in Nat
  BY <1>1, LenProperties DEF Sems
<1>3. sem.queue[j] \in Tasks /\ call[sem.queue[j]].st = "waiting"
  BY <1>1, <1>2, ElementOfSeq DEF Match, ToSet
<1>4. sem'.holder = sem.queue[j]
  BY <1>3 DEF LinkInv, PermitInv
<1>5. sem.queue # << >> /\ sem.queue[j] = Head(sem.queue)
  BY <1>3, <1>4, NewHolder
<1>6. sem.queue[j] = sem.queue[1] /\ 1 \in DOMAIN sem.queue
  BY <1>2, <1>5
<1>7. j = 1
  BY <1>1, <1>6 DEF Match, IsInjective
<1> QED
  BY <1>2, <1>7

\* asyncio.Semaphore as transport.py:39-49 uses it: while a task waits, no task
\* that queued behind it gets the permit, cancelled waiters in between or not.
THEOREM NoOvertakingCorrect == Spec => NoOvertaking
BY LinkInvInit, LinkInvStep, InOrderStep, PTL DEF Spec, NoOvertaking

-----------------------------------------------------------------------------
(***************************************************************************)
(* Why every waiter is served: someone holds the permit and can go on, and *)
(* each change of hands brings the waiter closer to it.  What is left to   *)
(* the fairness of LinkFairness is that the holder does go on.             *)
(***************************************************************************)
\* The holder of the permit has something to do that needs nobody else.
HolderCanGoOn(h) ==
    \/ call[h].st = "granted" /\ client[call[h].via] = "open"     \* Send
    \/ call[h].st = "granted" /\ client[call[h].via] = "closed"   \* SendOnClosed
    \/ call[h].st = "sent"                                        \* Fail

\* Nobody waits on everybody: no exit path of get() or post() loses the permit.
WaitersAreBehindSomeone ==
    \A t \in Tasks : call[t].st = "waiting" =>
        \E h \in Tasks : h # t /\ sem.holder = h /\ HolderCanGoOn(h)

\* A waiter never falls back, and moves up whenever the permit changes hands.
MovesUp ==
    \A i \in DOMAIN sem.queue, j \in DOMAIN sem'.queue :
        sem'.queue[j] = sem.queue[i] => j <= i /\ (sem'.holder # sem.holder => j < i)

WaitersMoveUp == [][MovesUp]_linkVars

\* transport.py:39-49: as long as a task waits for the permit there is another who
\* holds it and can go on, for any number of tasks and transports.
THEOREM NoDeadlock == Spec => []WaitersAreBehindSomeone
<1>1. LinkInv => WaitersAreBehindSomeone
  <2> SUFFICES ASSUME LinkInv, NEW t \in Tasks, call[t].st = "waiting"
               PROVE  \E h \in Tasks : h # t /\ sem.holder = h /\ HolderCanGoOn(h)
    BY DEF WaitersAreBehindSomeone
  <2>1. t \in ToSet(sem.queue) /\ sem.queue \in Seq(Tasks)
    BY DEF LinkInv, PermitInv, TypeOK
  <2>2. sem.queue # << >>
    BY <2>1 DEF ToSet
  <2>3. sem.holder \in Tasks
    BY <2>2 DEF LinkInv, PermitInv, TypeOK
  <2>4. call[sem.holder].st \in {"granted", "sent"}
    BY <2>3 DEF LinkInv, PermitInv
  <2>5. call[sem.holder] # Idle
    BY <2>4 DEF Idle
  <2>6. call[sem.holder].via \in Sessions
    BY <2>3, <2>5 DEF LinkInv, TypeOK, CallState
  <2>7. client[call[sem.holder].via] \in {"open", "closed"}
    BY <2>6 DEF LinkInv, TypeOK
  <2> QED
    BY <2>3, <2>4, <2>7 DEF HolderCanGoOn
<1> QED
  BY <1>1, LinkInvInit, LinkInvStep, PTL DEF Spec

LEMMA MovesUpStep == LinkInv /\ [Next]_linkVars => [MovesUp]_linkVars
<1> SUFFICES ASSUME LinkInv, [Next]_linkVars,
                    NEW i \in DOMAIN sem.queue, NEW j \in DOMAIN sem'.queue,
                    sem'.queue[j] = sem.queue[i]
             PROVE  j <= i /\ (sem'.holder # sem.holder => j < i)
  BY DEF MovesUp
<1> DEFINE q == sem.queue
<1>1. sem \in Sems /\ call \in Calls /\ Match(sem, call)
  BY LinkInvSplit DEF Agree
<1>2. /\ q \in Seq(Tasks) /\ Len(q) \in Nat /\ i \in 1..Len(q)
      /\ \A m, n \in 1..Len(q) : q[m] = q[n] => m = n
  BY <1>1, LenProperties DEF Sems, Match, IsInjective
<1>3. sem \in LocksOf(Tasks) /\ IsInjective(q)
  BY <1>1 DEF Sems, LocksOf, Match
<1>4. q[i] \in Tasks /\ call[q[i]].st = "waiting" /\ sem.holder # q[i] /\ sem.holder # NoTask
  <2>1. q[i] \in ToSet(q)
    BY <1>2 DEF ToSet
  <2> QED
    BY <1>1, <1>2, <2>1, ElementOfSeq DEF Match, ToSet
<1>5. ASSUME NEW t \in Tasks, call[t] # Idle, sem' = Leave(sem, t)
      PROVE  j <= i /\ (sem'.holder # sem.holder => j < i)
  <2>1. sem.holder = t \/ t \in ToSet(q)
    BY <1>1, <1>5, CallStates DEF Match
  <2>2. j <= i /\ (sem.holder = t => j < i)
    BY <1>3, <1>5, <2>1, LeaveMovesUp
  <2>3. sem.holder # t => sem'.holder = sem.holder
    BY <1>5 DEF Leave
  <2> QED
    BY <2>2, <2>3
<1>6. ASSUME NEW t \in Tasks, NEW s \in Sessions, NEW o \in Ops, Call(t, s, o)
      PROVE  j <= i /\ (sem'.holder # sem.holder => j < i)
  <2>1. sem' = Acquire(sem, t) /\ t # q[i]
    BY <1>4, <1>6 DEF Call, Idle
  <2>2. j = i
    BY <1>3, <2>1, AcquireKeepsPlace
  <2>3. sem'.holder = sem.holder
    BY <1>4, <2>1 DEF Acquire
  <2> QED
    BY <1>2, <2>2, <2>3
<1>7. ASSUME NEW t \in Tasks, NEW s \in Sessions, NEW o \in Ops, ReturnAndCall(t, s, o)
      PROVE  j <= i /\ (sem'.holder # sem.holder => j < i)
  <2>1. sem.holder = t /\ sem' = Acquire(Release(sem), t)
    BY <1>1, <1>7 DEF ReturnAndCall, ReplyArrived, EndCallAndCall, Match
  <2>2. q # << >>
    BY <1>2
  <2>3. Release(sem) = [holder |-> Head(q), queue |-> Tail(q)]
    BY <2>2 DEF Release
  <2>4. /\ Head(q) \in Tasks /\ Head(q) # NoTask
        /\ Tail(q) \in Seq(Tasks)
        /\ Len(Tail(q)) = Len(q) - 1
        /\ \A m \in 1..Len(Tail(q)) : Tail(q)[m] = q[m + 1]
    BY <1>2, <2>2, HeadTailProperties, LinkAssumption
  <2>5. sem'.queue = Append(Tail(q), t)
    BY <2>1, <2>3, <2>4 DEF Acquire
  <2>6. /\ Append(Tail(q), t) \in Seq(Tasks)
        /\ Len(Append(Tail(q), t)) = Len(q)
        /\ \A m \in 1..Len(q) - 1 : Append(Tail(q), t)[m] = q[m + 1]
        /\ Append(Tail(q), t)[Len(q)] = t
    BY <1>2, <2>4, AppendProperties
  <2>7. j \in 1..Len(q) /\ j # Len(q)
    BY <1>4, <2>1, <2>5, <2>6, LenProperties
  <2>8. j + 1 \in 1..Len(q) /\ q[j + 1] = q[i]
    BY <1>2, <2>5, <2>6, <2>7
  <2> QED
    BY <1>2, <2>7, <2>8
<1>8. CASE UNCHANGED sem
  BY <1>2, <1>8
<1>9. ASSUME NEW t \in Tasks, SendOnClosed(t) \/ Return(t) \/ Fail(t) \/ Cancel(t)
      PROVE  call[t] # Idle /\ sem' = Leave(sem, t)
  BY <1>9 DEF SendOnClosed, Return, Fail, Cancel, ReplyArrived, EndCall, Idle
<1>10. ASSUME NEW t \in Tasks, Send(t) PROVE UNCHANGED sem
  BY <1>10 DEF Send
<1>11. ASSUME \/ \E s \in Sessions : Close(s)
              \/ \E t \in Tasks, o \in Ops : Serve(t, o) \/ Lose(t, o)
              \/ UNCHANGED linkVars
       PROVE  UNCHANGED sem
  BY <1>11 DEF Close, Serve, Lose, linkVars
<1> QED
  BY <1>5, <1>6, <1>7, <1>8, <1>9, <1>10, <1>11 DEF Next

\* transport.py:39-49: with every release of the permit each waiter gets closer to
\* it, whoever else comes, times out or is cancelled.
THEOREM MovesUpCorrect == Spec => WaitersMoveUp
BY LinkInvInit, LinkInvStep, MovesUpStep, PTL DEF Spec, WaitersMoveUp

-----------------------------------------------------------------------------
(***************************************************************************)
(* Why a logout drains the calls of its transport.                         *)
(***************************************************************************)
\* A transport that was closed stays closed, no call is made through it, and none
\* of those that were waiting sends its request.
ClosedForGood ==
    \A s \in Sessions : client[s] = "closed" =>
        /\ client'[s] = "closed"
        /\ \A t \in Tasks : call'[t] # Idle /\ call'[t].via = s =>
             /\ call[t] # Idle /\ call[t].via = s
             /\ call'[t].st = "sent" => call[t].st = "sent"

NothingThroughClosed == [][ClosedForGood]_linkVars

\* Granting the permit leaves the transport of a call and what was sent as they are.
LEMMA GrantedKeeps ==
    ASSUME NEW c \in Calls, NEW s, NEW t \in Tasks
    PROVE  /\ Granted(c, s)[t] # Idle <=> c[t] # Idle
           /\ c[t] # Idle => Granted(c, s)[t].via = c[t].via
           /\ Granted(c, s)[t].st = "sent" <=> c[t].st = "sent"
<1>1. CASE s.holder = t /\ c[t].st = "waiting"
  <2>1. c[t] \in CallState
    BY <1>1, CallStates DEF Idle
  <2>2. Granted(c, s)[t] = [c[t] EXCEPT !.st = "granted"]
    BY <1>1 DEF Granted
  <2> QED
    BY <1>1, <2>1, <2>2 DEF CallState, Idle
<1>2. CASE ~(s.holder = t /\ c[t].st = "waiting")
  BY <1>2 DEF Granted
<1> QED
  BY <1>1, <1>2

LEMMA ClosedForGoodStep == LinkInv /\ [Next]_linkVars => [ClosedForGood]_linkVars
<1> SUFFICES ASSUME LinkInv, [Next]_linkVars, NEW s \in Sessions, client[s] = "closed"
             PROVE  /\ client'[s] = "closed"
                    /\ \A t \in Tasks : call'[t] # Idle /\ call'[t].via = s =>
                         /\ call[t] # Idle /\ call[t].via = s
                         /\ call'[t].st = "sent" => call[t].st = "sent"
  BY DEF ClosedForGood
<1> DEFINE Same(x) == call'[x] # Idle /\ call'[x].via = s =>
                         /\ call[x] # Idle /\ call[x].via = s
                         /\ call'[x].st = "sent" => call[x].st = "sent"
<1>1. call \in Calls /\ client \in Clients
  BY LinkInvSplit DEF Agree
<1>2. ASSUME NEW t \in Tasks, NEW r \in CallState \cup {Idle},
             call' = Granted([call EXCEPT ![t] = r], sem'),
             r = Idle \/ r.via # s
      PROVE  \A x \in Tasks : Same(x)
  <2> DEFINE c == [call EXCEPT ![t] = r]
  <2>1. c \in Calls /\ c[t] = r /\ \A x \in Tasks : x # t => c[x] = call[x]
    BY <1>1 DEF Calls
  <2>0. call' = Granted(c, sem')
    BY <1>2
  <2> HIDE DEF c
  <2>2. ASSUME NEW x \in Tasks
        PROVE  /\ call'[x] # Idle <=> c[x] # Idle
               /\ c[x] # Idle => call'[x].via = c[x].via
               /\ call'[x].st = "sent" <=> c[x].st = "sent"
    BY <2>0, <2>1, GrantedKeeps
  <2>3. ASSUME NEW x \in Tasks PROVE Same(x)
    <3>1. CASE x = t
      BY <1>2, <2>1, <2>2, <3>1
    <3>2. CASE x # t
      BY <2>1, <2>2, <3>2
    <3> QED
      BY <3>1, <3>2
  <2> HIDE DEF Same
  <2> QED
    BY <2>3
<1>3. ASSUME NEW t \in Tasks, EndCall(t) PROVE \A x \in Tasks : Same(x)
  <2>1. Idle \in CallState \cup {Idle} /\ call' = Granted([call EXCEPT ![t] = Idle], sem')
    BY <1>3 DEF EndCall
  <2> HIDE DEF Same
  <2> QED
    BY <1>2, <2>1
<1>4. ASSUME NEW t \in Tasks, NEW v \in Sessions, NEW o \in Ops, client[v] = "open",
             call' = Granted([call EXCEPT ![t] = [st |-> "waiting", via |-> v, op |-> o]], sem')
      PROVE  \A x \in Tasks : Same(x)
  <2> DEFINE r == [st |-> "waiting", via |-> v, op |-> o]
  <2>1. r \in CallState \cup {Idle} /\ r.via # s
    BY <1>4 DEF CallState
  <2>2. call' = Granted([call EXCEPT ![t] = r], sem')
    BY <1>4
  <2> HIDE DEF r, Same
  <2> QED
    BY <1>2, <2>1, <2>2
<1>5. ASSUME NEW t \in Tasks, Send(t) PROVE \A x \in Tasks : Same(x)
  <2>1. call[t].via # s
    BY <1>5 DEF Send
  <2>2. call' = [call EXCEPT ![t].st = "sent"] /\ call[t].st = "granted"
    BY <1>5 DEF Send
  <2>3. call[t] \in CallState
    BY <1>1, <2>2, CallStates DEF Idle
  <2>4. call'[t].via = call[t].via /\ \A x \in Tasks : x # t => call'[x] = call[x]
    BY <1>1, <2>2, <2>3 DEF Calls, CallState
  <2> QED
    BY <2>1, <2>4
<1>6. ASSUME UNCHANGED call PROVE \A x \in Tasks : Same(x)
  BY <1>6
<1>7. \A x \in Tasks : Same(x)
  <2> HIDE DEF Same
  <2>1. ASSUME NEW t \in Tasks, SendOnClosed(t) \/ Return(t) \/ Fail(t) \/ Cancel(t)
        PROVE  EndCall(t)
    BY <2>1 DEF SendOnClosed, Return, Fail, Cancel
  <2>2. ASSUME \/ \E v \in Sessions : Close(v)
               \/ \E t \in Tasks, o \in Ops : Serve(t, o) \/ Lose(t, o)
               \/ UNCHANGED linkVars
        PROVE  UNCHANGED call
    BY <2>2 DEF Close, Serve, Lose, linkVars
  <2>3. ASSUME NEW t \in Tasks, NEW v \in Sessions, NEW o \in Ops,
               Call(t, v, o) \/ ReturnAndCall(t, v, o)
        PROVE  \A x \in Tasks : Same(x)
    BY <1>4, <2>3 DEF Call, ReturnAndCall, EndCallAndCall
  <2> QED
    BY <1>3, <1>5, <1>6, <2>1, <2>2, <2>3 DEF Next
<1>8. client'[s] = "closed"
  <2>1. ASSUME NEW v \in Sessions, Close(v) PROVE client'[s] = "closed"
    BY <1>1, <2>1 DEF Close, Clients
  <2>2. CASE UNCHANGED client
    BY <2>2
  <2> QED
    BY <2>1, <2>2 DEF Next, linkVars, Call, Send, SendOnClosed, Return, ReturnAndCall, Fail,
       Cancel, Serve, Lose
<1> QED
  BY <1>7, <1>8

\* transport.py: after a logout or an expiry closed a transport, nothing is sent
\* through it any more, also by those that had passed _require_client before.
THEOREM ClosedCorrect == Spec => NothingThroughClosed
BY LinkInvInit, LinkInvStep, ClosedForGoodStep, PTL DEF Spec, NothingThroughClosed
=============================================================================
