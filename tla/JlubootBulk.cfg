CONSTANTS
    app = app
    empty = empty
    Files <- MCFiles
    Size <- MCSize
    AddrSpace = 8
    U16Max = 2
    SectorSize = 2
    BlockSize = 4
    Commands <- MCBulk
    DeviceProtocols = {"loaderv2", "uboot1"}
    MaxRuns = 2
    MaxResets = 1
    ShortTransfers = FALSE
SPECIFICATION Spec
CHECK_DEADLOCK FALSE
INVARIANTS
    TypeOK
    WroteWhatItSaid
    FlashChangesOnlyAsAsked
    ReadIsFaithful
    OutputMatchesExit
    BulkProtocolErrorIsClean
