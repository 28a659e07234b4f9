\* The loggers: double buffering, an unbounded queue, a queue of one.
SPECIFICATION MCSpec
CONSTANTS
    Capacity = 1
    MaxBuffers = 2
    MaxLines = 4
    Producers = {p1, p2}
    Unbounded = 0
    Capacities = {0, 1}
    MaxTime = 2
    rollSize = 1
    kCheckTimeRoll = 0
    kRollPerSeconds = 2
    flushInterval = 0
INVARIANTS SparesReady InOrder NobodySleeps
PROPERTIES RollsOver LinesWritten StopReturns
CHECK_DEADLOCK FALSE
