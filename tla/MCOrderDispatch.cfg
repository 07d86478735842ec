SPECIFICATION DispatchSpec
CONSTANTS
    NoRef = NoRef
    NoExec = NoExec
    NoIntent = NoIntent
    NoOwner = NoOwner
    NoReservation = NoReservation
    NoOrder = NoOrder
    o1 = o1
    o2 = o2
    a1 = a1
    p1 = p1
    p2 = p2
    t1 = t1
    t2 = t2
    Order = {o1, o2}
    Account = {a1}
    AccountOf <- MCAccountOf
    Intent <- MCBothSizes
    EventId = {}
    ProviderRef = {o1, o2}
    ExecRef = {}
    Process = {p1, p2}
    TTL = 1
    MaxFence = 3
    MaxTime = 1
    Thread = {t1, t2}
    OwnerOf <- MCOwnerOf
    RefOf <- MCRefOf
    MaxOrderQuantity = 2
    MaxOrderNotional = 2
    MaxAccountNotional = 3
    MaxLookups = 2
CONSTRAINT LookupBound
SYMMETRY Symmetry
CHECK_DEADLOCK FALSE
INVARIANTS
    SubmitAtMostOnce
    ExposureIsCovered
    InFlightExclusive
    HistoryReplays
    FillsComeFromVenue
PROPERTIES
    DispatchesInFenceOrder
    ImplementsFencedLease
