\* The life of the connection when two threads use it.
SPECIFICATION Spec
CONSTANT MaxSends = 1
INVARIANT NoUseAfterFree
CHECK_DEADLOCK FALSE
