CONSTANTS
    Blocks = 2
    LongBlocks <- MCLongBlocks
    Wrap = 4
    HandshakeTries = 2
    MaxErrors = 1
    MaxFaults = 1
    MaxResends = 1
SPECIFICATION Spec
INVARIANTS OKMeansEveryBlock
CHECK_DEADLOCK FALSE
