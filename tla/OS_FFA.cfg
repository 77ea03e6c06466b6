SPECIFICATION Spec
CONSTANTS
    Policy = "FFA"
    Bounds <- ShrinkingRange
    StartFrames = {1}
    Playbacks <- Writes
    StartDirection = "Forward"
    Threads = {t1, t2, t3, t4}
    OtherThreads = {0, 1}
    HardwareThreads = 2
    StallLimit = 20
    MaxRenders = 2
    MaxRangeChanges = 1
    NoFrame = NoFrame
    Scheduler = Scheduler
INVARIANTS
    NoThreadSleepsOnWork
    FramesRenderedOnce
SYMMETRY ThreadSymmetry
CHECK_DEADLOCK FALSE
