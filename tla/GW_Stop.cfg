SPECIFICATION Spec
CONSTANTS
    Tasks = {t1, t2, t3, t4}
    NeedsMain = {t2}
    MaxStops = 2
    NoTask = NoTask
INVARIANTS
    WatcherInv
PROPERTIES
    EveryTaskReported
    StopReturns
CHECK_DEADLOCK FALSE
