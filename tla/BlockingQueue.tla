--------------------------- MODULE BlockingQueue ---------------------------
(***************************************************************************)
(* muduo/thread/BlockingQueue.h and BoundedBlockingQueue.h.  Each passage  *)
(* through the mutex is a step: a thread that finds its condition false    *)
(* joins the waiting ones, and one that is not waiting looks again.        *)
(***************************************************************************)
EXTENDS Naturals, Sequences, Sync

CONSTANT Unbounded      \* the capacity of a BlockingQueue

VARIABLES queue, capacity,
          notEmpty, notFull     \* the threads that wait

Full == capacity # Unbounded /\ Len(queue) = capacity

\* put(): while the queue is full ...
WaitNotFull(t) ==
    /\ t \notin notFull
    /\ Full
    /\ notFull' = notFull \cup {t}
    /\ UNCHANGED <<queue, capacity, notEmpty>>

\* ... and then.
Put(t, x) ==
    /\ t \notin notFull
    /\ ~Full
    /\ queue' = Append(queue, x)
    /\ notEmpty' \in Notify(notEmpty)
    /\ UNCHANGED <<capacity, notFull>>

\* take(): while the queue is empty ...
WaitNotEmpty(t) ==
    /\ t \notin notEmpty
    /\ queue = <<>>
    /\ notEmpty' = notEmpty \cup {t}
    /\ UNCHANGED <<queue, capacity, notFull>>

\* Mutant: take() does not notify.
TakeSilently(t) ==
    /\ t \notin notEmpty
    /\ queue # <<>>
    /\ queue' = Tail(queue)
    /\ UNCHANGED <<capacity, notEmpty, notFull>>

\* ... and then, with Head(queue) returned.
Take(t) ==
    /\ t \notin notEmpty
    /\ queue # <<>>
    /\ queue' = Tail(queue)
    /\ notFull' \in Notify(notFull)
    /\ UNCHANGED <<capacity, notEmpty>>

\* pthread_cond_wait may return without a notify.
SpuriousWakeup(t) ==
    /\ t \in notEmpty \cup notFull
    /\ notEmpty' = notEmpty \ {t}
    /\ notFull' = notFull \ {t}
    /\ UNCHANGED <<queue, capacity>>

=============================================================================
