\* Does cancel() stop a timer?
SPECIFICATION Spec
CONSTANTS
    Timers = {t1, t2}
    MaxDelay = 2
    MaxCalls = 1
    MaxCreated = 2
    MaxSteps = 0
INVARIANT CancelStops
CHECK_DEADLOCK FALSE
