SPECIFICATION FairSpec
CONSTANTS
    r1 = r1
    r2 = r2
    r3 = r3
    a1 = a1
    Renders = {r1, r2, a1}
    Abortable = {a1}
    Proxies = {r2}
    Pixels <- Row
    RoIs <- Regions
    Tilings = {TRUE, FALSE}
    Identities = {a1}
    MayFail = {r1, a1}
INVARIANTS
    BitmapInv
    ReturnedImageIsPainted
PROPERTIES
    RendersReturn
CHECK_DEADLOCK FALSE
