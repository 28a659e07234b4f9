\* The connection, used in the loop thread or in two threads.
SPECIFICATION FairSpec
CONSTANT MaxSends = 3
INVARIANTS AssertionsHold NoDanglingChannel InOrder
PROPERTIES PeerCloseEnds OutputDrains
CHECK_DEADLOCK FALSE
