\* Timers added, cancelled, run and repeated.
SPECIFICATION FairSpec
CONSTANTS
    Timers = {t1, t2}
    MaxDelay = 2
    MaxCalls = 1
    MaxCreated = 1
    MaxSteps = 1
INVARIANTS SetsAgree AlarmInTime
PROPERTY ListedRuns
CHECK_DEADLOCK FALSE
