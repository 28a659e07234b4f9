------------------------ MODULE EventLoopThreadPool ------------------------
(***************************************************************************)
(* muduo/EventLoopThreadPool.cpp and EventLoopThread.cpp: an owner starts  *)
(* threads that run an EventLoop each, hands the loops out in turn, and    *)
(* destroys the threads.  Of an EventLoop, which is a local variable of    *)
(* its thread, there is what quit() and loop() do; EventLoop has the rest. *)
(***************************************************************************)
EXTENDS Naturals, Sequences, Sync

CONSTANTS MaxThreads,   \* the largest numThreads
          MaxCalls      \* bound: the calls of getNextLoop()

VARIABLES owner, numThreads,
          i,            \* the thread the owner starts or destroys
          thread,       \* EventLoopThread::thread
          loop,         \* EventLoopThread::loop: what it points to
          cond,         \* EventLoopThread::cond, of the thread being started
          loops, nextLoop,
          handed,       \* history: how often each loop was handed out
          isQuited, wakeup,
          at,           \* the loop threads
          stale,        \* the calls made on a loop that is gone
          lost          \* history: loop() has cleared a quit()

poolVars == <<numThreads, loops, nextLoop, handed>>
loopVars == <<isQuited, wakeup, at, lost>>
vars == <<owner, i, thread, loop, cond, stale, poolVars, loopVars>>

PoolThreads == 1 .. MaxThreads
baseLoop == 0

Init ==
    /\ owner = "idle" /\ numThreads \in 0 .. MaxThreads /\ i = 1
    /\ thread = [t \in PoolThreads |-> NewThread] /\ loop = [t \in PoolThreads |-> "null"]
    /\ cond = {} /\ loops = <<>> /\ nextLoop = 0
    /\ handed = [l \in PoolThreads \cup {baseLoop} |-> 0]
    /\ isQuited = [t \in PoolThreads |-> FALSE] /\ wakeup = isQuited
    /\ at = [t \in PoolThreads |-> "none"] /\ stale = {} /\ lost = {}

\* EventLoopThreadPool::start, and for each thread startLoop(): the thread ...
StartLoop ==
    /\ owner \in {"idle", "next"}
    /\ IF i > numThreads
         THEN owner' = "up" /\ i' = 1 /\ UNCHANGED thread
         ELSE /\ CanStart(thread[i])
              /\ thread' = [thread EXCEPT ![i] = StartThread(@)]
              /\ owner' = "starting"
              /\ UNCHANGED i
    /\ UNCHANGED <<loop, cond, stale, poolVars, loopVars>>

\* Mutant: startLoop() waits once, whether or not the loop is there.
LoopIsThereOnce == owner = "waited"

\* startLoop(): the condition of its wait.
LoopIsThere == loop[i] # "null"

\* ... the wait for its loop, and loops.push_back().
AwaitLoop ==
    /\ owner \in {"starting", "waited"}
    /\ "owner" \notin cond
    /\ IF LoopIsThere
         THEN /\ loops' = Append(loops, i)
              /\ i' = i + 1
              /\ owner' = "next"
              /\ UNCHANGED cond
         ELSE cond' = {"owner"} /\ owner' = "waited" /\ UNCHANGED <<loops, i>>
    /\ UNCHANGED <<thread, loop, stale, numThreads, nextLoop, handed, loopVars>>
SpuriousWakeup ==
    /\ cond # {}
    /\ cond' = {}
    /\ UNCHANGED <<owner, i, thread, loop, stale, poolVars, loopVars>>

Calls == LET sum[l \in Nat] == IF l = 0 THEN handed[0] ELSE handed[l] + sum[l - 1] IN sum[MaxThreads]

\* getNextLoop
GetNextLoop ==
    /\ owner = "up"
    /\ Calls < MaxCalls
    /\ LET chosen == IF loops = <<>> THEN baseLoop ELSE loops[nextLoop + 1]
       IN  handed' = [handed EXCEPT ![chosen] = @ + 1]
    /\ nextLoop' = IF loops = <<>> \/ nextLoop + 1 >= Len(loops) THEN 0 ELSE nextLoop + 1
    /\ UNCHANGED <<owner, i, thread, loop, cond, stale, numThreads, loops, loopVars>>

\* ~EventLoopThread of the next thread: quit() sets the flag ...
Destroy ==
    /\ owner \in {"up", "destroy"}
    /\ IF i > numThreads
         THEN owner' = "gone" /\ UNCHANGED <<isQuited, stale>>
         ELSE /\ owner' = "quit"
              /\ isQuited' = [isQuited EXCEPT ![i] = TRUE]
              /\ stale' = IF loop[i] = "live" THEN stale ELSE stale \cup {"quit"}
    /\ UNCHANGED <<i, thread, loop, cond, poolVars, wakeup, at, lost>>

\* Mutant: quit() does not wake the loop.
WakeUpNot ==
    /\ owner = "quit"
    /\ owner' = "joining"
    /\ UNCHANGED <<i, thread, loop, cond, stale, poolVars, loopVars>>

\* ... and wakes the loop, which may have seen the flag and be gone; ...
WakeUp ==
    /\ owner = "quit"
    /\ owner' = "joining"
    /\ wakeup' = [wakeup EXCEPT ![i] = TRUE]
    /\ stale' = IF loop[i] = "live" THEN stale ELSE stale \cup {"wakeUp"}
    /\ UNCHANGED <<i, thread, loop, cond, poolVars, isQuited, at, lost>>

\* ... and the join.
Join ==
    /\ owner = "joining"
    /\ CanJoin(thread[i]) /\ JoinReturns(thread[i])
    /\ thread' = [thread EXCEPT ![i] = JoinThread(@)]
    /\ i' = i + 1
    /\ owner' = "destroy"
    /\ UNCHANGED <<loop, cond, stale, poolVars, loopVars>>

-----------------------------------------------------------------------------
\* threadFunc: the loop is made and its address handed over under the mutex ...
ThreadFunc(t) ==
    /\ CanRun(thread[t])
    /\ thread' = [thread EXCEPT ![t] = RunInThread(@)]
    /\ at' = [at EXCEPT ![t] = "made"]
    /\ UNCHANGED <<owner, i, loop, cond, stale, poolVars, isQuited, wakeup, lost>>
HandOver(t) ==
    /\ at[t] = "made"
    /\ loop' = [loop EXCEPT ![t] = "live"]
    /\ cond' \in Notify(cond)
    /\ at' = [at EXCEPT ![t] = "enter"]
    /\ UNCHANGED <<owner, i, thread, stale, poolVars, isQuited, wakeup, lost>>

\* ... loop() clears isQuited as it starts ...
EnterLoop(t) ==
    /\ at[t] = "enter"
    /\ lost' = IF isQuited[t] THEN lost \cup {t} ELSE lost
    /\ isQuited' = [isQuited EXCEPT ![t] = FALSE]
    /\ at' = [at EXCEPT ![t] = "test"]
    /\ UNCHANGED <<owner, i, thread, loop, cond, stale, poolVars, wakeup>>

\* ... polls until it is told to quit, and the loop is destroyed.
TestQuit(t) ==
    /\ at[t] = "test"
    /\ IF isQuited[t]
         THEN /\ at' = [at EXCEPT ![t] = "end"]
              /\ loop' = [loop EXCEPT ![t] = "dangling"]
              /\ thread' = [thread EXCEPT ![t] = EndThread(@)]
         ELSE at' = [at EXCEPT ![t] = "poll"] /\ UNCHANGED <<loop, thread>>
    /\ UNCHANGED <<owner, i, cond, stale, poolVars, isQuited, wakeup, lost>>
PollReturns(t) ==
    /\ at[t] = "poll"
    /\ wakeup[t]
    /\ wakeup' = [wakeup EXCEPT ![t] = FALSE]
    /\ at' = [at EXCEPT ![t] = "test"]
    /\ UNCHANGED <<owner, i, thread, loop, cond, stale, poolVars, isQuited, lost>>

\* The poll timeout is not relied upon.
PollTimeout(t) ==
    /\ at[t] = "poll"
    /\ at' = [at EXCEPT ![t] = "test"]
    /\ UNCHANGED <<owner, i, thread, loop, cond, stale, poolVars, isQuited, wakeup, lost>>

LoopStep(t) == ThreadFunc(t) \/ HandOver(t) \/ EnterLoop(t) \/ TestQuit(t) \/ PollReturns(t)
OwnerStep == AwaitLoop \/ WakeUp \/ Join \/ (owner # "idle" /\ StartLoop) \/ (owner # "up" /\ Destroy)

Next ==
    \/ StartLoop \/ AwaitLoop \/ SpuriousWakeup \/ GetNextLoop \/ Destroy \/ WakeUp \/ Join
    \/ \E t \in PoolThreads : LoopStep(t) \/ PollTimeout(t)

-----------------------------------------------------------------------------

\* start() returns with numThreads loops that exist, getNextLoop() hands them out
\* evenly, and only the wakeUp() at the end of quit() may find its loop gone.
LoopsUsable ==
    /\ owner = "up" => Len(loops) = numThreads
    /\ owner = "up" => \A t \in PoolThreads : t <= numThreads => loop[t] = "live"
    /\ \A a, b \in PoolThreads : a <= numThreads /\ b <= numThreads => handed[a] <= handed[b] + 1
    /\ stale \subseteq {"wakeUp"}

\* start() returns, and the destructors do, unless loop() has cleared a quit().
PoolEnds ==
    /\ owner = "starting" ~> owner = "up"
    /\ owner = "quit" ~> owner = "gone" \/ lost # {}

=============================================================================
