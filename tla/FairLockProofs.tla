--------------------------- MODULE FairLockProofs ---------------------------
(***************************************************************************)
(* Lemmas about FairLock, for any set of tasks: what its operators do to   *)
(* the holder and to the waiters.                                          *)
(***************************************************************************)
EXTENDS FairLock, SequenceTheorems, TLAPS

-----------------------------------------------------------------------------
(***************************************************************************)
(* Lemmas about the queue of waiters.                                      *)
(***************************************************************************)
\* A task that starts to wait is behind all others.
LEMMA AppendWaiter ==
    ASSUME NEW S, NEW q \in Seq(S), NEW e \in S, IsInjective(q), e \notin ToSet(q)
    PROVE  /\ Append(q, e) \in Seq(S)
           /\ ToSet(Append(q, e)) = ToSet(q) \cup {e}
           /\ IsInjective(Append(q, e))
<1>1. /\ Append(q, e) \in Seq(S)
      /\ Len(Append(q, e)) = Len(q) + 1
      /\ \A i \in 1..Len(q) : Append(q, e)[i] = q[i]
      /\ Append(q, e)[Len(q) + 1] = e
  BY AppendProperties
<1>2. Len(q) \in Nat
  BY LenProperties
<1>3. \A i \in 1..Len(q) : q[i] # e
  BY DEF ToSet
<1>4. ToSet(Append(q, e)) = ToSet(q) \cup {e}
  BY <1>1, <1>2 DEF ToSet, IsInjective
<1>5. IsInjective(Append(q, e))
  BY <1>1, <1>2, <1>3 DEF ToSet, IsInjective
<1> QED
  BY <1>1, <1>4, <1>5

\* The first waiter leaves the queue.
LEMMA TailWaiters ==
    ASSUME NEW S, NEW q \in Seq(S), IsInjective(q), q # << >>
    PROVE  /\ Head(q) \in ToSet(q)
           /\ Head(q) \in S
           /\ Tail(q) \in Seq(S)
           /\ ToSet(Tail(q)) = ToSet(q) \ {Head(q)}
           /\ IsInjective(Tail(q))
<1>1. /\ Head(q) \in S
      /\ Tail(q) \in Seq(S)
      /\ Len(Tail(q)) = Len(q) - 1
      /\ \A i \in 1..Len(Tail(q)) : Tail(q)[i] = q[i + 1]
  BY HeadTailProperties
<1>2. Len(q) \in Nat \ {0} /\ Head(q) = q[1]
  BY EmptySeq
<1>3. Head(q) \in ToSet(q)
  BY <1>2 DEF ToSet, IsInjective
<1>4. ToSet(Tail(q)) = ToSet(q) \ {Head(q)}
  <2>1. ASSUME NEW x \in ToSet(Tail(q)) PROVE x \in ToSet(q) \ {Head(q)}
    <3>1. PICK i \in 1..Len(Tail(q)) : x = Tail(q)[i]
      BY <1>1 DEF ToSet, IsInjective
    <3>2. i + 1 \in 1..Len(q) /\ i + 1 # 1 /\ x = q[i + 1]
      BY <1>1, <1>2, <3>1
    <3> QED
      BY <1>2, <3>2 DEF ToSet, IsInjective
  <2>2. ASSUME NEW x \in ToSet(q) \ {Head(q)} PROVE x \in ToSet(Tail(q))
    <3>1. PICK i \in 1..Len(q) : x = q[i]
      BY DEF ToSet
    <3>2. i - 1 \in 1..Len(Tail(q)) /\ Tail(q)[i - 1] = x
      BY <1>1, <1>2, <3>1
    <3>3. i - 1 \in DOMAIN Tail(q)
      BY <1>1, <3>2
    <3> QED
      BY <3>2, <3>3 DEF ToSet
  <2> QED
    BY <2>1, <2>2
<1>5. IsInjective(Tail(q))
  <2>1. \A i, j \in 1..Len(Tail(q)) : Tail(q)[i] = Tail(q)[j] => i + 1 = j + 1
    BY <1>1, <1>2 DEF ToSet, IsInjective
  <2> QED
    BY <1>1, <2>1 DEF ToSet, IsInjective
<1> QED
  BY <1>1, <1>3, <1>4, <1>5

\* What the queue is once its element at k, which it has once, is removed.
LEMMA RemovedShape ==
    ASSUME NEW S, NEW q \in Seq(S), IsInjective(q), NEW k \in 1..Len(q)
    PROVE  /\ RemoveFirst(q, q[k]) \in Seq(S)
           /\ Len(RemoveFirst(q, q[k])) = Len(q) - 1
           /\ \A i \in 1..Len(q) - 1 :
                RemoveFirst(q, q[k])[i] = IF i < k THEN q[i] ELSE q[i + 1]
<1> DEFINE r == RemoveFirst(q, q[k])
           a == SubSeq(q, 1, k - 1)
           b == SubSeq(q, k + 1, Len(q))
<1>1. Len(q) \in Nat /\ \A i \in 1..Len(q) : q[i] \in S
  BY LenProperties, ElementOfSeq
<1>2. SelectInSeq(q, LAMBDA v : v = q[k]) = k
  <2>1. {i \in 1..Len(q) : q[i] = q[k]} = {k}
    BY DEF ToSet, IsInjective
  <2> QED
    BY <1>1, <2>1 DEF SelectInSeq, Min
<1>3. /\ a \in Seq(S)
      /\ Len(a) = k - 1
      /\ \A i \in 1..k - 1 : a[i] = q[i]
  <2>1. \A i \in 1..k - 1 : q[i] \in S
    BY <1>1
  <2>2. /\ a \in Seq(S)
        /\ Len(a) = IF 1 <= k - 1 THEN k - 1 - 1 + 1 ELSE 0
        /\ \A i \in 1..(k - 1) - 1 + 1 : a[i] = q[1 + i - 1]
    BY <2>1, SubSeqProperties
  <2> QED
    BY <2>2
<1>4. /\ b \in Seq(S)
      /\ Len(b) = Len(q) - k
      /\ \A i \in 1..Len(q) - k : b[i] = q[k + i]
  <2>1. \A i \in k + 1..Len(q) : q[i] \in S
    BY <1>1
  <2>2. /\ b \in Seq(S)
        /\ Len(b) = IF k + 1 <= Len(q) THEN Len(q) - (k + 1) + 1 ELSE 0
        /\ \A i \in 1..Len(q) - (k + 1) + 1 : b[i] = q[(k + 1) + i - 1]
    BY <1>1, <2>1, SubSeqProperties
  <2> QED
    BY <1>1, <2>2
<1>5. /\ a \o b \in Seq(S)
      /\ Len(a \o b) = Len(a) + Len(b)
      /\ \A i \in 1..Len(a) + Len(b) :
           (a \o b)[i] = IF i <= Len(a) THEN a[i] ELSE b[i - Len(a)]
  BY <1>3, <1>4, ConcatProperties
<1>6. r = a \o b
  BY <1>2 DEF RemoveFirst, RemoveAt
<1> HIDE DEF r, a, b
<1>7. r \in Seq(S) /\ Len(r) = Len(q) - 1
  BY <1>1, <1>3, <1>4, <1>5, <1>6
<1>8. ASSUME NEW i \in 1..Len(q) - 1
      PROVE  r[i] = IF i < k THEN q[i] ELSE q[i + 1]
  <2>1. i \in 1..Len(a) + Len(b)
    BY <1>1, <1>3, <1>4
  <2>2. r[i] = IF i <= Len(a) THEN a[i] ELSE b[i - Len(a)]
    BY <1>5, <1>6, <2>1
  <2>3. CASE i < k
    BY <1>1, <1>3, <2>2, <2>3
  <2>4. CASE i >= k
    <3>1. ~(i <= Len(a)) /\ i - Len(a) = i - k + 1 /\ i - k + 1 \in 1..Len(q) - k
      BY <1>1, <1>3, <2>4
    <3>2. r[i] = q[k + (i - k + 1)]
      BY <1>4, <2>2, <3>1
    <3> QED
      BY <2>4, <3>2
  <2> QED
    BY <2>3, <2>4
<1> QED
  BY <1>7, <1>8 DEF r

\* A cancelled waiter leaves the queue, wherever it stands.
LEMMA RemoveWaiter ==
    ASSUME NEW S, NEW q \in Seq(S), NEW e \in ToSet(q), IsInjective(q)
    PROVE  /\ RemoveFirst(q, e) \in Seq(S)
           /\ ToSet(RemoveFirst(q, e)) = ToSet(q) \ {e}
           /\ IsInjective(RemoveFirst(q, e))
<1>1. Len(q) \in Nat /\ \A i \in 1..Len(q) : q[i] \in S
  BY LenProperties, ElementOfSeq
<1>2. PICK k \in 1..Len(q) : q[k] = e
  BY DEF ToSet
<1> DEFINE r == RemoveFirst(q, e)
<1>3. /\ r \in Seq(S)
      /\ Len(r) = Len(q) - 1
      /\ \A i \in 1..Len(q) - 1 : r[i] = IF i < k THEN q[i] ELSE q[i + 1]
  BY <1>2, RemovedShape
<1> HIDE DEF r
<1>4. ToSet(r) = ToSet(q) \ {e}
  <2>1. ASSUME NEW x \in ToSet(r) PROVE x \in ToSet(q) \ {e}
    <3>1. PICK i \in 1..Len(q) - 1 : x = r[i]
      BY <1>3 DEF ToSet, IsInjective
    <3>2. PICK j \in 1..Len(q) : j # k /\ x = q[j]
      BY <1>1, <1>3, <3>1
    <3> QED
      BY <1>2, <3>2 DEF ToSet, IsInjective
  <2>2. ASSUME NEW x \in ToSet(q) \ {e} PROVE x \in ToSet(r)
    <3>1. PICK j \in 1..Len(q) : x = q[j]
      BY DEF ToSet
    <3>2. j # k
      BY <1>2, <3>1
    <3>3. PICK i \in 1..Len(r) : x = r[i]
      <4>1. CASE j < k
        BY <1>1, <1>3, <3>1, <4>1
      <4>2. CASE j > k
        <5>1. j - 1 \in 1..Len(q) - 1 /\ ~(j - 1 < k)
          BY <1>1, <4>2
        <5>2. r[j - 1] = q[(j - 1) + 1]
          BY <1>3, <5>1
        <5>3. (j - 1) + 1 = j /\ j - 1 \in 1..Len(r)
          BY <1>1, <1>3, <5>1
        <5> QED
          BY <3>1, <5>2, <5>3
      <4> QED
        BY <3>2, <4>1, <4>2
    <3> QED
      BY <1>3, <3>3 DEF ToSet, IsInjective
  <2> QED
    BY <2>1, <2>2
<1>5. IsInjective(r)
  <2>1. \A i, j \in 1..Len(r) : r[i] = r[j] => i = j
    <3>1. \A i, j \in 1..Len(q) : q[i] = q[j] => i = j
      BY DEF IsInjective
    <3> QED
      BY <1>1, <1>3, <3>1
  <2> QED
    BY <1>3, <2>1 DEF ToSet, IsInjective
<1> QED
  BY <1>3, <1>4, <1>5 DEF r

-----------------------------------------------------------------------------
(***************************************************************************)
(* Lemmas about the lock.                                                  *)
(***************************************************************************)
LocksOf(T) == [holder: T \cup {NoTask}, queue: Seq(T)]

\* Nobody waits twice, and nobody waits for a free lock.
Ordered(s) == IsInjective(s.queue) /\ (s.holder = NoTask => s.queue = << >>)

\* A lock is taken when it is free and waited for otherwise.
LEMMA AcquireOrdered ==
    ASSUME NEW T, NoTask \notin T, NEW s \in LocksOf(T), Ordered(s),
           NEW t \in T, t \notin ToSet(s.queue)
    PROVE  /\ Acquire(s, t) \in LocksOf(T)
           /\ Ordered(Acquire(s, t))
           /\ s.holder = NoTask => /\ Acquire(s, t).holder = t
                                   /\ ToSet(Acquire(s, t).queue) = ToSet(s.queue)
           /\ s.holder # NoTask => /\ Acquire(s, t).holder = s.holder
                                   /\ ToSet(Acquire(s, t).queue) = ToSet(s.queue) \cup {t}
<1>1. CASE s.holder = NoTask
  <2>1. Acquire(s, t) = [s EXCEPT !.holder = t]
    BY <1>1 DEF Acquire
  <2> QED
    BY <1>1, <2>1 DEF LocksOf, Ordered
<1>2. CASE s.holder # NoTask
  <2>1. s.queue \in Seq(T) /\ IsInjective(s.queue)
    BY DEF LocksOf, Ordered
  <2> DEFINE q == Append(s.queue, t)
  <2>2. q \in Seq(T) /\ ToSet(q) = ToSet(s.queue) \cup {t} /\ IsInjective(q)
    BY <2>1, AppendWaiter
  <2>3. Acquire(s, t) = [s EXCEPT !.queue = q]
    BY <1>2 DEF Acquire
  <2> HIDE DEF q
  <2> QED
    BY <1>2, <2>2, <2>3 DEF LocksOf, Ordered
<1> QED
  BY <1>1, <1>2

\* A released lock belongs to one of the waiters, or to nobody if there is none.
LEMMA ReleaseOrdered ==
    ASSUME NEW T, NoTask \notin T, NEW s \in LocksOf(T), Ordered(s)
    PROVE  /\ Release(s) \in LocksOf(T)
           /\ Ordered(Release(s))
           /\ \/ /\ Release(s).holder = NoTask
                 /\ ToSet(s.queue) = {} /\ ToSet(Release(s).queue) = {}
              \/ /\ Release(s).holder \in ToSet(s.queue)
                 /\ ToSet(Release(s).queue) = ToSet(s.queue) \ {Release(s).holder}
<1>1. s.queue \in Seq(T) /\ IsInjective(s.queue)
  BY DEF LocksOf, Ordered
<1>2. CASE s.queue = << >>
  <2>1. Release(s) = [s EXCEPT !.holder = NoTask]
    BY <1>2 DEF Release
  <2>2. ToSet(s.queue) = {}
    BY <1>2 DEF ToSet
  <2> QED
    BY <1>1, <1>2, <2>1, <2>2 DEF LocksOf, Ordered
<1>3. CASE s.queue # << >>
  <2> DEFINE h == Head(s.queue)
             q == Tail(s.queue)
  <2>1. /\ h \in ToSet(s.queue) /\ h \in T
        /\ q \in Seq(T) /\ ToSet(q) = ToSet(s.queue) \ {h} /\ IsInjective(q)
    BY <1>1, <1>3, TailWaiters
  <2>2. Release(s) = [holder |-> h, queue |-> q]
    BY <1>3 DEF Release
  <2> HIDE DEF h, q
  <2>3. h # NoTask
    BY <2>1
  <2> QED
    BY <2>1, <2>2, <2>3 DEF LocksOf, Ordered
<1> QED
  BY <1>2, <1>3

\* A waiter who leaves changes nothing for the others.
LEMMA LeaveOrdered ==
    ASSUME NEW T, NoTask \notin T, NEW s \in LocksOf(T), Ordered(s),
           NEW t \in ToSet(s.queue), s.holder # t
    PROVE  /\ Leave(s, t) \in LocksOf(T)
           /\ Ordered(Leave(s, t))
           /\ Leave(s, t).holder = s.holder
           /\ ToSet(Leave(s, t).queue) = ToSet(s.queue) \ {t}
<1>1. s.queue \in Seq(T) /\ IsInjective(s.queue)
  BY DEF LocksOf, Ordered
<1> DEFINE q == RemoveFirst(s.queue, t)
<1>2. q \in Seq(T) /\ ToSet(q) = ToSet(s.queue) \ {t} /\ IsInjective(q)
  BY <1>1, RemoveWaiter
<1>3. Leave(s, t) = [s EXCEPT !.queue = q]
  BY DEF Leave
<1> HIDE DEF q
<1>4. s.holder # NoTask
  BY DEF Ordered, ToSet
<1> QED
  BY <1>2, <1>3, <1>4 DEF LocksOf, Ordered
\* Whoever leaves the lock, no waiter falls back, and when the holder leaves every
\* waiter moves up.
LEMMA LeaveMovesUp ==
    ASSUME NEW T, NEW s \in LocksOf(T), IsInjective(s.queue), NEW t \in T,
           s.holder = t \/ t \in ToSet(s.queue),
           NEW i \in DOMAIN s.queue, NEW j \in DOMAIN Leave(s, t).queue,
           Leave(s, t).queue[j] = s.queue[i]
    PROVE  j <= i /\ (s.holder = t => j < i)
<1> DEFINE q == s.queue
<1>1. q \in Seq(T) /\ Len(q) \in Nat /\ i \in 1..Len(q)
  BY LenProperties DEF LocksOf
<1>2. \A m, n \in 1..Len(q) : q[m] = q[n] => m = n
  BY <1>1 DEF IsInjective
<1>3. CASE s.holder = t
  <2>1. q # << >>
    BY <1>1
  <2>2. Leave(s, t).queue = Tail(q)
    BY <1>3, <2>1 DEF Leave, Release
  <2>3. Len(Tail(q)) = Len(q) - 1 /\ \A m \in 1..Len(Tail(q)) : Tail(q)[m] = q[m + 1]
    BY <1>1, <2>1, HeadTailProperties
  <2>4. j \in 1..Len(Tail(q)) /\ j + 1 \in 1..Len(q) /\ q[j + 1] = q[i]
    BY <1>1, <2>1, <2>2, <2>3, HeadTailProperties, LenProperties
  <2>5. j + 1 = i
    BY <1>1, <1>2, <2>4
  <2> QED
    BY <1>1, <2>4, <2>5
<1>4. CASE s.holder # t
  <2>1. PICK k \in 1..Len(q) : q[k] = t
    BY <1>1, <1>4 DEF ToSet
  <2> DEFINE r == RemoveFirst(q, t)
  <2>2. Leave(s, t).queue = r
    BY <1>4 DEF Leave, LocksOf
  <2>3. /\ r \in Seq(T)
        /\ Len(r) = Len(q) - 1
        /\ \A m \in 1..Len(q) - 1 : r[m] = IF m < k THEN q[m] ELSE q[m + 1]
    BY <1>1, <2>1, RemovedShape
  <2> HIDE DEF q, r
  <2>4. j \in 1..Len(q) - 1 /\ (IF j < k THEN q[j] ELSE q[j + 1]) = q[i]
    BY <2>2, <2>3, LenProperties DEF q
  <2>5. j = i \/ j + 1 = i
    <3>1. CASE j < k
      BY <1>1, <1>2, <2>4, <3>1
    <3>2. CASE ~(j < k)
      <4>1. q[j + 1] = q[i] /\ j + 1 \in 1..Len(q)
        BY <1>1, <2>4, <3>2
      <4> QED
        BY <1>1, <1>2, <4>1
    <3> QED
      BY <3>1, <3>2
  <2> QED
    BY <1>1, <1>4, <2>4, <2>5
<1> QED
  BY <1>3, <1>4

\* Whoever comes for the lock stands behind those who wait, who keep their place.
LEMMA AcquireKeepsPlace ==
    ASSUME NEW T, NEW s \in LocksOf(T), IsInjective(s.queue), NEW t \in T,
           NEW i \in DOMAIN s.queue, NEW j \in DOMAIN Acquire(s, t).queue,
           Acquire(s, t).queue[j] = s.queue[i], t # s.queue[i]
    PROVE  j = i
<1> DEFINE q == s.queue
<1>1. q \in Seq(T) /\ Len(q) \in Nat /\ i \in 1..Len(q)
  BY LenProperties DEF LocksOf
<1>2. \A m, n \in 1..Len(q) : q[m] = q[n] => m = n
  BY <1>1 DEF IsInjective
<1>3. CASE Acquire(s, t).queue = q
  BY <1>1, <1>2, <1>3
<1>4. CASE Acquire(s, t).queue = Append(q, t)
  <2>1. /\ Append(q, t) \in Seq(T)
        /\ Len(Append(q, t)) = Len(q) + 1
        /\ \A m \in 1..Len(q) : Append(q, t)[m] = q[m]
        /\ Append(q, t)[Len(q) + 1] = t
    BY <1>1, AppendProperties
  <2>2. j \in 1..Len(q) + 1
    BY <1>4, <2>1, LenProperties
  <2>3. j # Len(q) + 1
    BY <1>4, <2>1
  <2>4. j \in 1..Len(q) /\ q[j] = q[i]
    BY <1>1, <1>4, <2>1, <2>2, <2>3
  <2> QED
    BY <1>1, <1>2, <2>4
<1> QED
  BY <1>3, <1>4 DEF Acquire, LocksOf
=============================================================================
