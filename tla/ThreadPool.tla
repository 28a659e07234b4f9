----------------------------- MODULE ThreadPool -----------------------------
(***************************************************************************)
(* muduo/thread/ThreadPool.cc: an owner starts workers, hands tasks to     *)
(* them and stops them.  running_ is written without the mutex, so that a  *)
(* worker's test of it and its cond_.wait() are two steps, between which   *)
(* the worker holds the mutex.  Tasks are numbered as they are queued.     *)
(***************************************************************************)
EXTENDS Naturals, Sequences, FiniteSets, Sync

CONSTANTS PoolSize,     \* the largest numThreads
          MaxTasks      \* bound: the number of tasks

VARIABLES owner,        \* the thread that calls start() and stop()
          threads,      \* threads_
          running, queue,
          waiting,      \* cond_
          worker,       \* where each worker is
          tasks,        \* history: the number of tasks run() got
          taken,        \* history: the tasks in the order they were taken
          missed,       \* history: stop() notified before a worker waited
          aborted

vars == <<owner, threads, running, queue, waiting, worker, tasks, taken, missed, aborted>>

Workers == 1 .. PoolSize
InPool == {w \in Workers : threads[w].started}
MutexFree == \A w \in Workers : worker[w] # "enter"

Init ==
    /\ owner = "idle" /\ threads = [w \in Workers |-> NewThread]
    /\ running = FALSE /\ queue = <<>> /\ waiting = {}
    /\ worker = [w \in Workers |-> "none"]
    /\ tasks = 0 /\ taken = <<>> /\ missed = FALSE /\ aborted = FALSE

\* start()
Start ==
    /\ owner = "idle"
    /\ owner' = "starting"
    /\ running' = TRUE
    /\ UNCHANGED <<threads, queue, waiting, worker, tasks, taken, missed, aborted>>

\* start(): the next thread ...
StartNext ==
    /\ owner = "starting"
    /\ \E w \in Workers :
           /\ CanStart(threads[w]) /\ InPool = 1 .. w - 1
           /\ threads' = [threads EXCEPT ![w] = StartThread(@)]
    /\ UNCHANGED <<owner, running, queue, waiting, worker, tasks, taken, missed, aborted>>

\* ... until there are numThreads.
StartEnds ==
    /\ owner = "starting"
    /\ owner' = "up"
    /\ UNCHANGED <<threads, running, queue, waiting, worker, tasks, taken, missed, aborted>>

\* Mutant: nobody is notified of the task.
QueueTaskSilently ==
    /\ MutexFree
    /\ queue' = Append(queue, tasks')
    /\ UNCHANGED <<waiting, taken>>

\* run(), with threads.
QueueTask ==
    /\ MutexFree
    /\ queue' = Append(queue, tasks')
    /\ waiting' \in Notify(waiting)
    /\ UNCHANGED taken

\* run(), by the owner or by a task: with no thread the task runs at once.
Run ==
    /\ owner \in {"idle", "up"} \/ \E w \in Workers : worker[w] = "task"
    /\ tasks < MaxTasks
    /\ tasks' = tasks + 1
    /\ IF InPool = {}
         THEN taken' = Append(taken, tasks') /\ UNCHANGED <<queue, waiting>>
         ELSE QueueTask
    /\ UNCHANGED <<owner, threads, running, worker, missed, aborted>>

\* stop(): the flag ...
Stop ==
    /\ owner = "up"
    /\ owner' = "stopping"
    /\ running' = FALSE
    /\ UNCHANGED <<threads, queue, waiting, worker, tasks, taken, missed, aborted>>

\* Mutant: stop() wakes one worker.
StopNotifyOne ==
    /\ owner = "stopping"
    /\ owner' = "joining"
    /\ waiting' \in Notify(waiting)
    /\ missed' = \E w \in Workers : worker[w] = "enter"
    /\ UNCHANGED <<threads, running, queue, worker, tasks, taken, aborted>>

\* ... the workers that wait now ...
StopNotify ==
    /\ owner = "stopping"
    /\ owner' = "joining"
    /\ waiting' = NotifyAll(waiting)
    /\ missed' = \E w \in Workers : worker[w] = "enter"
    /\ UNCHANGED <<threads, running, queue, worker, tasks, taken, aborted>>

\* ... and the joins, in the order of threads_.
Join ==
    /\ owner = "joining"
    /\ \E w \in InPool :
           /\ CanJoin(threads[w]) /\ JoinReturns(threads[w])
           /\ \A v \in 1 .. w - 1 : threads[v].joined
           /\ threads' = [threads EXCEPT ![w] = JoinThread(@)]
    /\ UNCHANGED <<owner, running, queue, waiting, worker, tasks, taken, missed, aborted>>
Stopped ==
    /\ owner = "joining"
    /\ \A w \in InPool : threads[w].joined
    /\ owner' = "down"
    /\ UNCHANGED <<threads, running, queue, waiting, worker, tasks, taken, missed, aborted>>

-----------------------------------------------------------------------------
\* runInThread
Begin(w) ==
    /\ CanRun(threads[w])
    /\ threads' = [threads EXCEPT ![w] = RunInThread(@)]
    /\ worker' = [worker EXCEPT ![w] = "loop"]
    /\ UNCHANGED <<owner, running, queue, waiting, tasks, taken, missed, aborted>>

\* runInThread: while (running_)
Loop(w) ==
    /\ worker[w] = "loop"
    /\ worker' = [worker EXCEPT ![w] = IF running THEN "take" ELSE "end"]
    /\ threads' = IF running THEN threads ELSE [threads EXCEPT ![w] = EndThread(@)]
    /\ UNCHANGED <<owner, running, queue, waiting, tasks, taken, missed, aborted>>

\* take(): there is a task.
TakeFront(w) ==
    /\ worker' = [worker EXCEPT ![w] = "task"]
    /\ taken' = Append(taken, Head(queue))
    /\ queue' = Tail(queue)

\* take(): the test, with the mutex ...
TestQueue(w) ==
    /\ worker[w] = "take" \/ (worker[w] = "wait" /\ w \notin waiting)
    /\ MutexFree
    /\ IF queue = <<>>
         THEN /\ worker' = [worker EXCEPT ![w] = IF running THEN "enter" ELSE "loop"]
              /\ UNCHANGED <<queue, taken>>
         ELSE TakeFront(w)
    /\ UNCHANGED <<owner, threads, running, waiting, tasks, missed, aborted>>

\* ... and cond_.wait(), which releases it.
Wait(w) ==
    /\ worker[w] = "enter"
    /\ worker' = [worker EXCEPT ![w] = "wait"]
    /\ waiting' = waiting \cup {w}
    /\ UNCHANGED <<owner, threads, running, queue, tasks, taken, missed, aborted>>
SpuriousWakeup(w) ==
    /\ w \in waiting
    /\ waiting' = waiting \ {w}
    /\ UNCHANGED <<owner, threads, running, queue, worker, tasks, taken, missed, aborted>>

\* runInThread: task() returns, or throws.
TaskReturns(w) ==
    /\ worker[w] = "task"
    /\ worker' = [worker EXCEPT ![w] = "loop"]
    /\ UNCHANGED <<owner, threads, running, queue, waiting, tasks, taken, missed, aborted>>
TaskThrows(w) ==
    /\ worker[w] = "task"
    /\ aborted' = TRUE
    /\ UNCHANGED <<owner, threads, running, queue, waiting, worker, tasks, taken, missed>>

WorkerStep(w) == Begin(w) \/ Loop(w) \/ TestQueue(w) \/ Wait(w) \/ TaskReturns(w)
OwnerStep == StartEnds \/ StopNotify \/ Join \/ Stopped

Next ==
    /\ ~aborted
    /\ \/ Start \/ StartNext \/ Run \/ Stop \/ OwnerStep
       \/ \E w \in Workers : WorkerStep(w) \/ SpuriousWakeup(w) \/ TaskThrows(w)

-----------------------------------------------------------------------------

\* Every task is taken at most once, in the order of the run() calls, and none is lost
\* from the queue; while the pool is up it is taken.
TasksRun ==
    /\ [](taken \o queue = [i \in 1 .. tasks |-> i])
    /\ \A n \in 1 .. MaxTasks :
           owner = "up" /\ tasks >= n ~> Len(taken) >= n \/ owner # "up" \/ aborted

\* stop() returns, unless its notifyAll() came between a worker's test of running_
\* and its wait.
StopReturns == owner = "joining" /\ ~missed ~> owner = "down" \/ aborted

=============================================================================
