SPECIFICATION ContractSpec
CONSTANTS
    yearly = yearly
    monthwise = monthwise
    Orders <- BothOrders
    Interval <- OrderInterval
    Ordered <- MonthwiseFirst
    Schedules = {c1, c2}
    Webhooks = {h1}
    Accounts = {a1}
    Year = 2
    Horizon = 4
    MaxSubscriptions = 2
    ContractFaults = FALSE
    Nothing = Nothing
SYMMETRY ContractIdentities
INVARIANTS
    TermIsKept
CHECK_DEADLOCK FALSE
