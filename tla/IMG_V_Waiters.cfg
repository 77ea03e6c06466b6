SPECIFICATION Spec
CONSTANTS
    r1 = r1
    r2 = r2
    r3 = r3
    a1 = a1
    Renders = {r1, r2, r3}
    Abortable = {}
    Proxies = {r2}
    Pixels <- Row
    RoIs <- Regions
    Tilings = {TRUE}
    Identities = {}
    MayFail = {}
INVARIANTS
    SleepersHaveAWaker
CHECK_DEADLOCK FALSE
