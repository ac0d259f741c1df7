SPECIFICATION Spec
CONSTANTS
    l1 = l1
    l2 = l2
    l3 = l3
    i1 = i1
    i2 = i2
    i3 = i3
    Leads <- OneLead
    Direct <- OneLead
    Invoices <- OneInvoice
    Events <- PaymentEvents
    Requests = {r1, r2}
    Rows = {x1, x2}
    Keys = {k1, k2, k3}
    LeadEmail <- OneEmail
    LeadDomain <- OneDomain
    LeadPlan <- OnePlan
    InvoiceLead <- OneInvoiceLead
    Subscribed <- OneLead
    OpenInvoices <- OneInvoice
    NoEvent = NoEvent
    NoRow = NoRow
    NoKey = NoKey
    NoCustomer = NoCustomer
    NoInvoice = NoInvoice
    MaxFaults <- WebhookFaults
SYMMETRY Identities
INVARIANTS
    PaidInvoiceIsMailed
CHECK_DEADLOCK FALSE
