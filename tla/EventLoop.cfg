\* The loop, two foreign threads and three functors; a pool of up to two loops.
SPECIFICATION MCSpec
CONSTANTS
    t0 = t0
    t1 = t1
    t2 = t2
    f1 = f1
    f2 = f2
    f3 = f3
    Threads <- MCThreads
    LoopThread = t0
    Functors <- MCFunctors3
    WakeupMax = 1
    MaxThreads = 2
    MaxCalls = 3
INVARIANTS NoLostWakeup LoopsUsable
PROPERTIES IsFunctorQueue FunctorsRun IoServed QuitStopsLoop PoolEnds
