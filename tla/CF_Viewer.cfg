SPECIFICATION FairSpec
CONSTANTS
    MaxRequests = 2
    MaxCalls = 1
    AllowRestarts = {FALSE}
    PoolHasRoom = {TRUE, FALSE}
    MayBeNeat = {1}
    Faulty = {2}
    Stub = Stub
    NoTask = NoTask
    NoImage = NoImage
INVARIANTS
    OngoingInv
    WaitsForAComingFrame
PROPERTIES
    DisplayedInOrder
    EveryRequestAnswered
    QuitReturns
CHECK_DEADLOCK FALSE
