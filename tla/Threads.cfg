\* The programs with threads.
SPECIFICATION MCSpec
CONSTANTS
    PoolSize = 2
    MaxTasks = 3
    Fds = {f1, f2}
    MaxConns = 4
INVARIANT FdsOwned
PROPERTIES TasksRun StopReturns BacklogServed
CHECK_DEADLOCK FALSE
