SPECIFICATION Spec
CONSTANTS
    Track = {"bass"}
    Context = {"c1"}
    Founder = {"c1"}
    LaneOf <- LaneOfDef
    Period = {1, 2}
    BeatsPerPhrase = 1
    RotateEvery = 1
    GridReseed = 1
    MaxTick = 2
    MaxCommands = 4
    MaxPlays = 2
    MaxScores = 2
    MaxCrashes = 1
PROPERTY FreshAfterDelete
CHECK_DEADLOCK FALSE
