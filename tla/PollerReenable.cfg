\* Re-enabling a channel.
SPECIFICATION MCSpec
CONSTANTS
    Fds <- MCFds
    kInitEventListSize = 1
    Callers = {c1, c2}
    Slots = {s1, s2}
    MaxCalls = 3
INVARIANT InterestIsWatched
