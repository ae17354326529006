\* The replica of a session: one thread of the kernel, one caller, and four
\* inputs in all, of which up to three mutations.
SPECIFICATION Spec
CONSTANTS
    Kernel = K
    Me = S
    Replica = {K, S}
    Birth = {text}
    PlainText = text
    Field = {"status"}
    MaxVal = 0
    MaxPos = 0
    MaxAside = 0
    Thread = {"t1"}
    Caller = {c1}
    Batch = {"text"}
    TopicCap = 1
    RingCap = 1
    QueueCap = 1
    MaxPendingBlocks = 1
    MaxPendingEvents = 2
    MaxPendingOps = 1
    MaxWrites = 3
    MaxBatches = 1
    MaxOutages = 1
    MaxTimeouts = 1
    MaxInputs = 4
INVARIANTS
    AckedKept
    SeqFresh
    
PROPERTIES
    ResyncCovers
CHECK_DEADLOCK FALSE
