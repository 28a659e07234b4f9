---------------------------- MODULE MCEventLoop -----------------------------
(***************************************************************************)
(* An EventLoop with a small set of threads and functors, or an            *)
(* EventLoopThreadPool with its loops: one of the two in each behaviour,   *)
(* while the other stays in an initial state.                              *)
(***************************************************************************)
EXTENDS EventLoop

CONSTANTS t0, t1, t2, f1, f2, f3, MaxThreads, MaxCalls

ASSUME MaxThreadsAssumption == MaxThreads \in Nat

MCThreads == {t0, t1, t2}
MCFunctors3 == {f1, f2, f3}

VARIABLES
    program,
    owner, numThreads, index, thread, loop, cond, loops, nextLoop, handed, threadQuited,
    threadWakeup, at, stale, lost

threadVars == <<owner, numThreads, index, thread, loop, cond, loops, nextLoop, handed, threadQuited,
                threadWakeup, at, stale, lost>>
allVars == <<program, threadVars, vars>>

E == INSTANCE EventLoopThreadPool WITH i <- index, isQuited <- threadQuited, wakeup <- threadWakeup

MCInit ==
    /\ Init /\ E!Init
    /\ \/ program = "loop" /\ numThreads = MaxThreads
       \/ program = "pool" /\ callingPendingFunctors = FALSE

Loop(A) == program = "loop" /\ A /\ UNCHANGED <<program, threadVars>>
Pool(A) == program = "pool" /\ A /\ UNCHANGED <<program, vars>>

\* A pool that is destroyed is the one state in which nothing is left to do.
PoolGone == program = "pool" /\ owner = "gone" /\ UNCHANGED allVars

MCNext == Loop(Next) \/ Pool(E!Next) \/ PoolGone

\* The loop's thread runs and calls are finished, as in FairSpec; so do the threads
\* of the pool, and the owner once it has begun to start or to destroy.
MCSpec ==
    /\ MCInit /\ [][MCNext]_allVars
    /\ WF_allVars(Loop(LoopStep)) /\ \A t \in Threads : WF_allVars(Loop(FinishCall(t)))
    /\ \A t \in 1 .. MaxThreads : WF_allVars(Pool(E!LoopStep(t)))
    /\ WF_allVars(Pool(E!OwnerStep))

\* EventLoopThread.cpp and EventLoopThreadPool.cpp: see EventLoopThreadPool.
LoopsUsable == E!LoopsUsable
PoolEnds == E!PoolEnds

=============================================================================
