SPECIFICATION CustomerSpec
CONSTANTS
    site1 = site1
    site2 = site2
    yearly = yearly
    monthwise = monthwise
    Visits = {v1, v2}
    Sites = {site1, site2}
    Activations <- StarterOrder
    PublisherKeys = {k1, k2}
    PlanSites <- StarterSites
    PlanItems <- StarterItems
    Quotas = {1, 2}
    MaxItems = 2
    LastMonth = 2
    NoVisit = NoVisit
    Orders <- BothOrders
    Interval <- OrderInterval
    Ordered <- FormsSentAtOnce
    Schedules = {c1, c2}
    Webhooks = {h1, h2}
    Accounts = {a1}
    Year = 2
    Horizon = 4
    MaxSubscriptions = 1
    ContractFaults = TRUE
    Nothing = Nothing
SYMMETRY Identities
INVARIANTS
    AccountTypeOK
    MeterWithinLimit
    MeterAddsUp
    TermIsKept
    ReleasesToMonthly
CHECK_DEADLOCK FALSE
