SPECIFICATION FairSpec
CONSTANTS
    Context = {"c1", "c2"}
    Founders = {"c1"}
    Player <- PlayerDef
    Beat = "beat"
    Score = "score"
    Kind <- KindDef
    Sink = TRUE
    Budget = 3
    MaxCells = 2
    MaxFailures = 1
    MaxForeign = 1
    MaxMoves = 1
    MaxCrashes = 1
INVARIANTS  ParentTrue NothingSilent CuedOnce BoundedRetries
PROPERTY NoWedge
CHECK_DEADLOCK FALSE
