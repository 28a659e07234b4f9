\* The bookkeeping of Poller, of EPoller and of a Signal.
SPECIFICATION MCSpec
CONSTANTS
    Fds <- MCFds
    kInitEventListSize = 1
    Callers = {c1, c2}
    Slots = {s1, s2}
    MaxCalls = 3
INVARIANTS EntriesMatchChannels KernelWatchesInterest RunsConnected ListIsClean
PROPERTY NothingUnwanted
