CONSTANTS
    app = app
    empty = empty
    Files <- MCFiles
    Size <- MCSize
    AddrSpace = 8
    U16Max = 2
    SectorSize = 2
    BlockSize = 4
    Commands <- MCRoundTrip
    DeviceProtocols = {"loaderv2"}
    MaxRuns = 4
    MaxResets = 1
    ShortTransfers = FALSE
SPECIFICATION Spec
CHECK_DEADLOCK FALSE
INVARIANTS
    RoundTrip
