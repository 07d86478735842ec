SPECIFICATION MCSpec
CONSTANTS
    r1 = r1
    r2 = r2
    r3 = r3
    p1 = p1
    Result = {r1, r2, r3}
    PaperCandidate = {r1, r2, r3}
    NoStrategy = NoStrategy
    MaxSelections = 1
    Process = {p1}
    StartingCash = 2
    MaxTime = 3
    MaxClaims = 2
    MaxTrades = 2
    MaxChanges = 2
    MaxLeases = 1
    MaxSignals = 1
    ClockMayRegress = TRUE
    BarKind <- ThinMarket
    Warmup = 2
    Length = 9
    FastWindow = 1
    SlowWindow = 2
    Quantity = 2
    OpeningCash = 12
    Fee = 2
    Slip = 1
    Tax = 0
    DelayBars = 2
    Strategy = {r1, r2, r3}
    Metrics <- MCMetrics
    HoldReturn = {1}
    NumWindows = 3
SYMMETRY Symmetry
CHECK_DEADLOCK FALSE
CONSTRAINT OneOtherThing
ACTION_CONSTRAINT NewestBars
INVARIANTS
    PromotionsReplay
    BarsComparedOnce
    FoldIsHonest
    PromotionIsTransitive
PROPERTIES
    PromotedOnEqualTerms
