CONSTANTS
    Blocks = 4
    LongBlocks <- MCLongBlocks
    Wrap = 3
    HandshakeTries = 2
    MaxErrors = 1
    MaxFaults = 1
    MaxResends = 1
SPECIFICATION Spec
INVARIANTS OKMeansComplete
PROPERTIES StreamsFile Terminates
CHECK_DEADLOCK FALSE
