\* A manual rollback leaves an earlier strategy selected; one sample is enough to
\* decide.
SPECIFICATION SelectedTwiceSpec
CONSTANTS
    Result = {r1, r2}
    PaperCandidate = {r1, r2}
    NoStrategy = NoStrategy
    MaxSelections = 3
    Account = {a1}
    NoAccount = NoAccount
    Process = {p1}
    NoOwner = NoOwner
    NoClaim = NoClaim
    TTL = 3
    MaxFence = 3
    MaxTime = 3
    ClockMayRegress = FALSE
    MinSamples = 1
    MaxCloses = 2
CHECK_DEADLOCK FALSE
INVARIANT RolledBackIsEvaluated
