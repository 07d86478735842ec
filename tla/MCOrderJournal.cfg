SPECIFICATION JournalSpec
CONSTANTS
    NoRef = NoRef
    NoExec = NoExec
    NoIntent = NoIntent
    o1 = o1
    o2 = o2
    acct = acct
    Order = {o1, o2}
    Account = {acct}
    AccountOf <- MCAccountOf
    Intent <- MCIntent
    EventId = {e1, e2, e3, e4}
    ProviderRef = {r1, r2}
    ExecRef = {x1, x2}
CHECK_DEADLOCK FALSE
INVARIANTS
    EveryOrderReplays
    FillsAddUp
    ExecutionRecordedOnce
PROPERTIES
    SettledStaysSettled
