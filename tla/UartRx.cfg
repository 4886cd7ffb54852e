SPECIFICATION Spec
CONSTANTS
    Size = 3
    FifoDepth = 2
    Lengths = {1, 2}
    MaxBytes = 4
    MaxClears = 1
INVARIANTS
    TypeOK
    TransferFits
    CompleteMeansFull
    CleanTransferIsWhole
    SnapshotConsistent
    ReaderIsSafe
PROPERTIES
    ByteTaken
    RingIsQueue
CHECK_DEADLOCK FALSE
