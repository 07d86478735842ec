SPECIFICATION RunSpec
CONSTANTS
    Result = {r1, r2}
    PaperCandidate = {r1, r2}
    NoStrategy = NoStrategy
    MaxSelections = 2
    Account = {a1, a2}
    NoAccount = NoAccount
    Process = {p1, p2}
    NoOwner = NoOwner
    NoClaim = NoClaim
    TTL = 2
    MaxFence = 3
    MaxTime = 3
    ClockMayRegress = FALSE
    MinSamples = 2
    MaxCloses = 2
CHECK_DEADLOCK FALSE
INVARIANT LoopReleases
