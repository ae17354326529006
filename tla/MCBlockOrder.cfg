SPECIFICATION Spec
CONSTANTS
    NumWidth = 1
    MaxNum = 2
    Principal = {0, 1}
    Suffix <- MCSuffix
    SnapTick <- MCSnapTick
    MaxBlocks = 3
    MaxMoves = 1
INVARIANTS
    LaneAheadOfLog
PROPERTIES
    RestartKeepsOrder
CHECK_DEADLOCK FALSE
