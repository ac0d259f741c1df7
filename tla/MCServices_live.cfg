SPECIFICATION SiteSpec
CONSTANTS
    l1 = l1
    l2 = l2
    l3 = l3
    i1 = i1
    i2 = i2
    i3 = i3
    Leads <- ThreeLeads
    Direct <- ThreeLeads
    Invoices <- ThreeInvoices
    Events <- SharingEvents
    Requests = {r1, r2}
    Rows = {x1, x2}
    Keys = {k1, k2, k3, k4, k5}
    LeadEmail <- TwoEmails
    LeadDomain <- SharedDomains
    LeadPlan <- ThreePlans
    InvoiceLead <- ThreeInvoiceLead
    Subscribed <- ThreeLeads
    OpenInvoices <- ThreeInvoices
    NoEvent = NoEvent
    NoRow = NoRow
    NoKey = NoKey
    NoCustomer = NoCustomer
    NoInvoice = NoInvoice
    MaxFaults <- RetriedFaults
    Scenes = {"billing", "odds", "backup", "sign-in", "login"}
    Football = Football
    Tennis = Tennis
    FootballKey = FootballKey
    TennisKey = TennisKey
    First = First
    Matches <- TwoMatches
    OddsKeys = {FootballKey, TennisKey}
    Configured <- ConfiguredKeys
    Tour <- TourKeys
    Refreshers = {First, Second}
    Schedules <- SomeSchedules
    Lookahead = 3
    Daily = 2
    PreMatch = 1
    MatchLimit = 1
    Horizon = 4
    MaxMishaps = 1
    CustomerA = CustomerA
    CustomerB = CustomerB
    LeadA = LeadA
    ReminderA = ReminderA
    ExportRows <- SomeRows
    Tables = 3
    TableOf <- RowTable
    Parents <- RowParents
    MayName <- RowNames
    Exports = {First, Second}
    MaxErrors = 1
    SignIns = {r1, r2}
    Links = {t1, t2, t3}
    MaxRecent = 1
    Recent = 2
    Lifetime = 3
    EndOfTime = 3
    MaxMailErrors = 1
    Admins = {a1, a2}
    Addresses = {c1}
    MaxFailures = 2
    Window = 2
    LastMoment = 2
    MaxRestarts = 1
INVARIANTS
    StoredKeyWasMailed
    OddsAreAccounted
    VerifiedIsComplete
    SignInsAreLimited
PROPERTIES
    ImplementsInbox
    EveryEventIsHandled
    PaymentLeadsToAccess
    DueIsChecked
CHECK_DEADLOCK FALSE
