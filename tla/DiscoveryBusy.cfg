CONSTANTS
    left = left
    right = right
    other = other
    sda = sda
    AutoDetect = AutoDetect
    Nothing = Nothing
    Silent = Silent
    Devices <- MCDevices
    Matching <- MCMatching
    OfVendor <- MCOfVendor
    SgNodes = {0, 1, 2}
    SdNodes <- MCSdNodes
    Lines <- MCAuto
    MaxMoves = 0
SPECIFICATION Spec
CHECK_DEADLOCK FALSE
INVARIANTS
    TargetIsUnambiguous
