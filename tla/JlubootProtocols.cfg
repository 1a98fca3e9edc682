CONSTANTS
    app = app
    empty = empty
    Files <- MCFiles
    Size <- MCSize
    AddrSpace = 8
    U16Max = 2
    SectorSize = 2
    BlockSize = 4
    Commands <- MCAllOps
    DeviceProtocols = {"loaderv2", "loaderv1", "uboot1"}
    MaxRuns = 1
    MaxResets = 1
    ShortTransfers = FALSE
SPECIFICATION FairSpec
CHECK_DEADLOCK FALSE
INVARIANTS
    ExitZeroMeansExecuted
    DestructionNeedsYes
    QueriesAreHarmless
PROPERTIES
    Terminates
