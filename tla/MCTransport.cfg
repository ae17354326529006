SPECIFICATION FairSpec
CONSTANTS
    Track = {"bass", "lead"}
    Context = {"c1", "c2"}
    Founder = {"c1"}
    LaneOf <- LaneOfDef
    Period = {1, 2}
    BeatsPerPhrase = 1
    RotateEvery = 1
    GridReseed = 1
    MaxTick = 1
    MaxCommands = 4
    MaxPlays = 2
    MaxScores = 2
    MaxCrashes = 1
INVARIANTS OneEntry IndexHonest  BurstBounded
  
CHECK_DEADLOCK FALSE
