SPECIFICATION Spec
CONSTANTS
    Replica = {0, 1}
    Kernel = 0
    Peer = 1
    Thread = {t1, t2}
    Birth = {text}
    PlainText = text
    Field = {"status"}
    ForkStamp = {}
    MaxVal = 0
    MaxPos = 0
    MaxAside = 0
    MaxSeq = 1
    MaxClock = 2
    MaxEdits = 2
    MaxOps = 3
    COMPACTION_OP_THRESHOLD = 2
    MaxFails = 1
    MaxCrashes = 1
INVARIANTS
    NumbersFresh
PROPERTIES
    TruncationCovered
CHECK_DEADLOCK FALSE
SYMMETRY ThreadSymmetry
