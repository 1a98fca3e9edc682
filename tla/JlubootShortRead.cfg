CONSTANTS
    app = app
    empty = empty
    Files <- MCFiles
    Size <- MCSize
    AddrSpace = 8
    U16Max = 2
    SectorSize = 2
    BlockSize = 4
    Commands <- MCReads
    DeviceProtocols = {"loaderv2"}
    MaxRuns = 1
    MaxResets = 0
    ShortTransfers = TRUE
SPECIFICATION Spec
CHECK_DEADLOCK FALSE
INVARIANTS
    ReadIsComplete
