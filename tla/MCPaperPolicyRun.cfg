SPECIFICATION RunSpec
CONSTANTS
    Result = {r1, r2}
    PaperCandidate = {r1, r2}
    NoStrategy = NoStrategy
    MaxSelections = 2
    Account = {a1, a2}
    NoAccount = NoAccount
    Process = {p1, p2}
    NoOwner = NoOwner
    NoClaim = NoClaim
    TTL = 1
    MaxFence = 3
    MaxTime = 2
    ClockMayRegress = TRUE
    MinSamples = 1
    MaxCloses = 1
SYMMETRY Symmetry
CHECK_DEADLOCK FALSE
INVARIANTS
    OneRollbackPerSelection
PROPERTIES
    EvidenceIsFenced
    WritesPassGuard
