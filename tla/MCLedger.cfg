SPECIFICATION Spec
CONSTANTS
    Currency = {"USD", "EUR"}
    NoCurrency = NoCurrency
    File <- AnyFile
    UpgradedLedger <- OldLedgers
    Key = {k1, k2, k3, k4}
    PageLimit = 1
    MaxPreviews = 4
    MaxEvents = 7
    MaxWalks = 2
CONSTRAINT OneStory
SYMMETRY KeySymmetry
CHECK_DEADLOCK FALSE
INVARIANTS
    LedgerStaysReadable
    PortfolioIsRight
    AppliedAsReviewed
    WalkIsComplete
