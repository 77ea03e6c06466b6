SPECIFICATION FairSpec
CONSTANTS
    Callers = {main}
    MainThread = main
    Starters = {main}
    Aborters = {}
    AbortWaiters = {}
    Quitters = {}
    QuitWaiters = {}
    EnforceBlocking = {}
    Tasks = {t1, t2, t3}
    Skippable = {}
    Behaviour = "ProcessInOrder"
    UsesMainThread = TRUE
    AllowRestarts = {TRUE}
    MaxAborts = 0
    MaxQuits = 0
    Stub = Stub
    NoTask = NoTask
INVARIANTS
    NoTaskLeftBehind
    MainThreadCallbackIsSound
PROPERTIES
    ImplementsFairService
CHECK_DEADLOCK FALSE
