SPECIFICATION FairSpec
CONSTANTS
    Context = {"a", "b"}
    NoContext = "none"
    First = "a"
    Ask <- AskDef
    MaxAttempt = 3
    MaxOutages = 2
INVARIANTS HandshakeCurrent
PROPERTIES AllAnswered DeadWireLeft ComesBack
CHECK_DEADLOCK FALSE
