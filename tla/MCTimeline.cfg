SPECIFICATION FairSpec
CONSTANTS
    Lane = {"bass", "drums"}
    Player = {"ana"}
    Ambient = {0, 1}
    Recipe <- RecipeDef
    Emitter = {"ambient"}
    Speed = {1, 3}
    CommitMargin = 1
    MaxCells = 2
    MaxTick = 3
    MaxReading = 2
INVARIANTS
    NoZombie
    OneFate
    
PROPERTIES
    CommitsFresh
    
    ImplementsScore
CHECK_DEADLOCK FALSE
