\* Power may be lost at any point; no flash operation misbehaves.
SPECIFICATION Spec
CONSTANTS
    SeqMax = 2
    RowCells = 1
    PageRows = 2
    Pages = 2
    Files <- MCFiles
    Images <- MCImages
    BlockSizes = {2}
    MaxPad = 1
    UcaWords <- MCUca
    MaxFaults = 0
INVARIANTS
    TypeOK
    ProgramsVirgin
PROPERTIES
    SwapOnlyProvisioned
    OnlyCommitStamps
    UpdateIsAtomic
