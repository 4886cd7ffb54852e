\* Power may be lost at any point; one flash operation misbehaves.
SPECIFICATION Spec
CONSTANTS
    SeqMax = 1
    RowCells = 2
    PageRows = 2
    Pages = 2
    Files <- MCFiles
    Images <- MCImages
    BlockSizes = {2, 4}
    MaxPad = 3
    UcaWords <- MCUca
    MaxFaults = 1
INVARIANTS
    BootIsIntact
    ActiveSelected
    VerifiedImageIntact
CHECK_DEADLOCK FALSE
