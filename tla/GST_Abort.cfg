SPECIFICATION FairSpec
CONSTANTS
    Callers = {main, other}
    MainThread = main
    Starters = {main}
    Aborters = {main, other}
    AbortWaiters = {}
    Quitters = {}
    QuitWaiters = {}
    EnforceBlocking = {}
    Tasks = {t1, t2, t3}
    Skippable = {}
    Behaviour = "ProcessInOrder"
    UsesMainThread = FALSE
    AllowRestarts = {TRUE}
    MaxAborts = 2
    MaxQuits = 0
    Stub = Stub
    NoTask = NoTask
INVARIANTS
    PlacementInv
PROPERTIES
    ImplementsService
    AbortDropsOnlyOlderTasks
    ActiveAbortProcessed
CHECK_DEADLOCK FALSE
