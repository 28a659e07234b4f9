\* The byte queue with shrink.
SPECIFICATION SpecWithShrink
CONSTANTS
    Byte <- MCByte
    Zero = 0
    kCheapPrepend = 2
    kInitialSize = 2
    ExtraBuf = 1
    MaxLen = 2
    MaxContent = 3
INVARIANT Layout
