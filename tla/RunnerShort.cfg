\* A successful SG_IO may move fewer bytes than asked.
SPECIFICATION Spec
CONSTANTS
    p1 = p1
    p2 = p2
    Procs = {p1}
    AddrSpace = 6
    U16Max = 2
    Files <- MCFiles
    Size <- MCSize
    Options <- MCOneOptions
    MaxResets = 0
    ShortTransfers = TRUE
INVARIANTS
    LoadedReportIsTrue
CHECK_DEADLOCK FALSE
