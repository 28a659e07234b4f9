\* The connector of a client that connects once and reconnects.
SPECIFICATION FairSpec
CONSTANTS
    kInitRetryDelayMs = 500
    kMaxRetryDelayMs = 30000
    MaxStarts = 1
    Destroys = TRUE
INVARIANTS AssertionsHold OneAttempt NoSocketLeak
PROPERTY Connects
CHECK_DEADLOCK FALSE
