------------------------------ MODULE FairLock ------------------------------
(***************************************************************************)
(* asyncio.Semaphore(1) and asyncio.Lock: a record of the holder and of    *)
(* the waiters in the order in which they came.  acquire() takes a free    *)
(* lock without yielding and queues behind every earlier waiter otherwise; *)
(* release() hands the lock to the first waiter, who may be resumed later. *)
(***************************************************************************)
EXTENDS SequencesExt

CONSTANT NoTask

Free == [holder |-> NoTask, queue |-> << >>]

Acquire(s, t) ==
    IF s.holder = NoTask
    THEN [s EXCEPT !.holder = t]
    ELSE [s EXCEPT !.queue = Append(@, t)]

\* Variant with a defect: the last waiter is woken.
ReleaseToLast(s) ==
    IF s.queue = << >>
    THEN [s EXCEPT !.holder = NoTask]
    ELSE [holder |-> Last(s.queue), queue |-> Front(s.queue)]

Release(s) ==
    IF s.queue = << >>
    THEN [s EXCEPT !.holder = NoTask]
    ELSE [holder |-> Head(s.queue), queue |-> Tail(s.queue)]

\* A task that leaves while it holds the lock, or while it queues for it.
Leave(s, t) ==
    IF s.holder = t THEN Release(s) ELSE [s EXCEPT !.queue = RemoveFirst(@, t)]
=============================================================================
