\* The parts one thread uses alone.
SPECIFICATION MCSpec
CONSTANTS
    Byte <- MCByte
    Zero = 0
    kCheapPrepend = 2
    kInitialSize = 2
    ExtraBuf = 1
    MaxLen = 2
    MaxContent = 3
    LastYear = 2100
    DaySeconds = {0, 59, 3600, 86399}
    Seconds = {1, 2}
INVARIANTS Layout ContentIsQueue DatesCount LocalRoundTrip NumberReadsBack LineSound
\* The calendar ends with LastYear, and a Logger with FATAL.
CHECK_DEADLOCK FALSE
