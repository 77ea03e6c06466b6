SPECIFICATION FairSpec
CONSTANTS
    j1 = j1
    j2 = j2
    j3 = j3
    w1 = w1
    w2 = w2
    Jobs = {j1, j2, j3}
    Writers = {w1, w2}
    WriterOf <- TwoWriters
    NoJob = NoJob
    MayFail = {j2}
    GuiMayBeSlow = TRUE
    MaxFrames = 1
    Modes = {"Gui", "Process", "Blocking"}
    Unqueuing = {"Gui"}
    Questioned = {j2}
    ViewAware = {}
    Overlap = FALSE
    MaxCancels = 2
    MaxProcesses = 2
INVARIANTS
    QueueInv
    NoRequestLost
    CancelIsOnItsWay
PROPERTIES
    QueueDrains
    BlockingRendersReturn
CHECK_DEADLOCK FALSE
