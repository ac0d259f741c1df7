SPECIFICATION ContractSpec
CONSTANTS
    yearly = yearly
    monthwise = monthwise
    Orders <- BothOrders
    Interval <- OrderInterval
    Ordered <- FormsSentAtOnce
    Schedules = {c1, c2}
    Webhooks = {h1, h2}
    Accounts = {a1}
    Year = 2
    Horizon = 4
    MaxSubscriptions = 1
    ContractFaults = FALSE
    Nothing = Nothing
PROPERTIES
    ContinuesMonthly
CHECK_DEADLOCK FALSE
