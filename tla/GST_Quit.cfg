SPECIFICATION FairSpec
CONSTANTS
    Callers = {main, other}
    MainThread = main
    Starters = {main}
    Aborters = {other}
    AbortWaiters = {other}
    Quitters = {main}
    QuitWaiters = {main, other}
    EnforceBlocking = {}
    Tasks = {t1, t2}
    Skippable = {t1}
    Behaviour = "SkipToMostRecent"
    UsesMainThread = TRUE
    AllowRestarts = {TRUE, FALSE}
    MaxAborts = 1
    MaxQuits = 1
    Stub = Stub
    NoTask = NoTask
INVARIANTS
    TypeOK
    QuitIsRemembered
PROPERTIES
    QuitStopsThread
    SkipsOnlyOutdated
CHECK_DEADLOCK FALSE
