\* The exit code of an ioctl that fails.
SPECIFICATION Spec
CONSTANTS
    p1 = p1
    p2 = p2
    Procs = {p1}
    AddrSpace = 6
    U16Max = 2
    Files <- MCFiles
    Size <- MCSize
    Options <- MCOneOptions
    MaxResets = 0
    ShortTransfers = FALSE
INVARIANTS
    TransportFailureIsNotLocal
CHECK_DEADLOCK FALSE
