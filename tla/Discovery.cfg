CONSTANTS
    left = left
    right = right
    other = other
    sda = sda
    AutoDetect = AutoDetect
    Nothing = Nothing
    Silent = Silent
    Devices <- MCDevices
    Matching <- MCMatching
    OfVendor <- MCOfVendor
    SgNodes = {0, 1, 2}
    SdNodes <- MCSdNodes
    Lines <- MCLines
    MaxMoves = 2
SPECIFICATION FairSpec
CHECK_DEADLOCK FALSE
INVARIANTS
    TypeOK
    ListIsAccurate
    ProbesOnlyWanted
    CommandReachesTheChosen
    AutoDetectionDecides
    SelectorIsFollowed
PROPERTIES
    Terminates
