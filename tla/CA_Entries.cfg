SPECIFICATION Spec
CONSTANTS
    k1 = k1
    k2 = k2
    Users = {u1, u2}
    Deleter = Deleter
    Clearer = Clearer
    Requests <- TwoKeys
    Capacity = 2
    Entries = {e1, e2, e3}
    NoEntry = NoEntry
    TilesPerFile = 2
    TileEntries = {d1, d2, d3}
    Files = {f1, f2, f3}
    NoFile = NoFile
    MaxTwice = 1
INVARIANTS
    AccountingInv
    NoTwins
    UsedEntriesStay
    WaitsForTheDeleter
SYMMETRY Symmetry
CHECK_DEADLOCK FALSE
