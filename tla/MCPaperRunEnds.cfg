\* One-shot runs and loops of one account; short clocks.  Of two selections one
\* can be taken back, which leaves a strategy under a ROLLBACK event.
SPECIFICATION FairSelectedTwiceSpec
CONSTANTS
    Result = {r1, r2}
    PaperCandidate = {r1, r2}
    NoStrategy = NoStrategy
    MaxSelections = 3
    Account = {a1}
    NoAccount = NoAccount
    Process = {p1, p2}
    NoOwner = NoOwner
    NoClaim = NoClaim
    TTL = 2
    MaxFence = 2
    MaxTime = 2
    ClockMayRegress = FALSE
    MinSamples = 2
    MaxCloses = 2
CHECK_DEADLOCK FALSE
INVARIANTS
    LossNeverSkipped
    EvidenceReplays
    OneShotReleases
PROPERTIES
    OneShotEnds
