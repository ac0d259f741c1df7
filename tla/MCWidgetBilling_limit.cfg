SPECIFICATION Spec
CONSTANTS
    l1 = l1
    l2 = l2
    l3 = l3
    i1 = i1
    i2 = i2
    i3 = i3
    Leads <- TwoLeads
    Direct <- TwoLeads
    Invoices <- TwoInvoices
    Events <- ReturningEvents
    Requests = {r1, r2}
    Rows = {x1, x2}
    Keys = {k1, k2, k3, k4}
    LeadEmail <- OneEmail
    LeadDomain <- TwoDomains
    LeadPlan <- TwoPlans
    InvoiceLead <- TwoInvoiceLead
    Subscribed <- TwoLeads
    OpenInvoices <- TwoInvoices
    NoEvent = NoEvent
    NoRow = NoRow
    NoKey = NoKey
    NoCustomer = NoCustomer
    NoInvoice = NoInvoice
    MaxFaults <- NoFaults
SYMMETRY Identities
INVARIANTS
    LimitMatchesPlan
CHECK_DEADLOCK FALSE
