\* Power may be lost at any point; a stamp and its roll-back both fail.
SPECIFICATION Spec
CONSTANTS
    SeqMax = 2
    RowCells = 1
    PageRows = 2
    Pages = 2
    Files <- MCFewFiles
    Images <- MCImages
    BlockSizes = {2}
    MaxPad = 1
    UcaWords <- MCOneUca
    MaxFaults = 2
INVARIANTS
    FailedCommitKeepsActive
CHECK_DEADLOCK FALSE
