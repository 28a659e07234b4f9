-------------------------------- MODULE Sync --------------------------------
(***************************************************************************)
(* muduo/thread: Condition, CountDownLatch and Thread, as values.  A       *)
(* condition variable is the set of the threads that wait on it; a thread  *)
(* that is woken looks at its condition again, with the mutex.             *)
(***************************************************************************)
EXTENDS Naturals

\* Condition::notify, the sets it may leave.
Notify(waiting) == IF waiting = {} THEN {{}} ELSE {waiting \ {t} : t \in waiting}

\* Condition::notifyAll
NotifyAll(waiting) == {}

\* CountDownLatch: its count; wait() goes on at 0, and countDown() wakes all then.
NewLatch == 1
CountDown(count) == count - 1
LatchOpen(count) == ~(count > 0)

\* Thread: started_, joined_ and what the thread created does.
NewThread == [started |-> FALSE, joined |-> FALSE, at |-> "none"]

\* start(), with its assertion; a pthread_create that fails aborts.
CanStart(thread) == ~thread.started
StartThread(thread) == [thread EXCEPT !.started = TRUE, !.at = "created"]

\* runInThread: before and after func_().
CanRun(thread) == thread.at = "created"
RunInThread(thread) == [thread EXCEPT !.at = "running"]
EndThread(thread) == [thread EXCEPT !.at = "finished"]

\* join(): its assertions, its flag, and its return.
CanJoin(thread) == thread.started /\ ~thread.joined
JoinThread(thread) == [thread EXCEPT !.joined = TRUE]
JoinReturns(thread) == thread.at = "finished"

=============================================================================
