\* Two invocations, overlapping or one after the other, and two device resets.
SPECIFICATION FairSpec
CONSTANTS
    p1 = p1
    p2 = p2
    Procs = {p1, p2}
    AddrSpace = 6
    U16Max = 2
    Files <- MCFiles
    Size <- MCSize
    Options <- MCOptions
    MaxResets = 2
    ShortTransfers = FALSE
INVARIANTS
    TypeOK
    JumpOnlyIntoLoadedImage
    LoadedReportIsTrue
    ExitZeroMeansStarted
    DeviceNotFoundTouchesNothing
    ProtocolErrorIsAllOrNothing
PROPERTIES
    WritesStayInWindow
    ImplementsLoadAndJump
    Terminates
CHECK_DEADLOCK FALSE
