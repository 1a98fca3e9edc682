\* Two invocations in a row - find, then use, among others - with one move.
CONSTANTS
    left = left
    right = right
    plain = plain
    other = other
    rom = rom
    AutoDetect = AutoDetect
    Nothing = Nothing
    Disks <- MCDisks
    Roms <- MCRoms
    Instance <- MCInstance
    Matching <- MCMatching
    RomNumber <- MCRomNumber
    Letters = {1, 2}
    Numbers = {0, 1}
    Lines <- MCLines
    MaxMoves = 1
    MaxRuns = 2
SPECIFICATION FairSpec
CHECK_DEADLOCK FALSE
INVARIANTS
    TypeOK
    OnlyAllowlistedAreServed
    LetterIsTheDrive
    ShownSelectorWorks
PROPERTIES
    Terminates
