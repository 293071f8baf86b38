SPECIFICATION CacheSpec
CONSTANTS
    Units = 2
    da = da
    db = db
    h1 = h1
    h2 = h2
    v1 = v1
    v2 = v2
    Headers = {h1, h2}
    Dirs = {da, db}
    Search <- TwoSearches
    Versions = {v1, v2, bad}
    Broken = {bad}
    Oversized = {}
    EditsDuringScan = FALSE
    MaxEdits = 1
    MaxAborts = 0
    Absent = Absent
    Unread = Unread
    Damaged = Damaged
    NoEntry = NoEntry
SYMMETRY SymVersions
INVARIANTS
    NeverChangesReport
