SPECIFICATION Spec
CONSTANTS
    Replica = {r1, r2}
    Author = {r1}
    Birth = {text, toolCall}
    PlainText = text
    Field = {"status"}
    MaxVal = 1
    MaxPos = 0
    MaxAside = 0
    MaxSeq = 1
    MaxClock = 2
    MaxEdits = 1
INVARIANTS
    SameBirth
    ExchangeConverges
    ClockDominates
PROPERTIES
    TombstonesStay
    NoOlderWrite
CHECK_DEADLOCK FALSE
