SPECIFICATION Spec
CONSTANTS
    Symbol = {X}
    BarKind <- MCBarKind
    Target = {0, 2}
    StartingCash = 5
    Fee = 1
    Slip = 0
    Tax = 0
    DelayBars = 1
    MaxBars = 3
    MaxOrders = 2
    Process = {p}
    DrawdownParts = 2
    ReturnParts = 2
    MaxRuns = 2
    MaxRenewals = 1
    MaxFaults = 1
    MaxSelections = 2
CHECK_DEADLOCK FALSE
INVARIANTS
    RecoveryAccepts
    FillsAreFair
    LeasesAreRespected
PROPERTIES
    PolicyComesFirst
