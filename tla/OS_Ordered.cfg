SPECIFICATION FairSpec
CONSTANTS
    Policy = "Ordered"
    Bounds <- ThreeFrames
    StartFrames = {1}
    Playbacks <- LoopOrFail
    StartDirection = "Forward"
    Threads = {t1, t2, t3}
    OtherThreads = {0}
    HardwareThreads = 1
    StallLimit = 2
    MaxRenders = 1
    MaxRangeChanges = 0
    NoFrame = NoFrame
    Scheduler = Scheduler
INVARIANTS
    BufferInv
    ExpectedFrameIsComing
PROPERTIES
    ProcessedInOrder
    StopReturns
CHECK_DEADLOCK FALSE
