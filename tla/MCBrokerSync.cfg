SPECIFICATION Spec
CONSTANTS
    p1 = p1
    p2 = p2
    a1 = a1
    a2 = a2
    Procs = {p1, p2}
    Accounts = {a1, a2}
    Pages = 2
    MaxPages = 3
    MaxQuantity = 1
    MaxTime = 3
    MaxBooks = 2
    MaxRevision = 1
    MaxSyncs = 3
SYMMETRY MCSymmetry
CONSTRAINT OneStory
CHECK_DEADLOCK FALSE
INVARIANTS
    HistoryRecovers
    RecordsFitTheirRevision
    SnapshotsAreTrue
