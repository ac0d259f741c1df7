SPECIFICATION StorySpec
CONSTANTS
    l1 = l1
    l2 = l2
    l3 = l3
    l4 = l4
    i1 = i1
    i2 = i2
    i3 = i3
    i4 = i4
    Leads <- FourLeads
    Direct <- ThreeLeads
    Invoices <- FourInvoices
    Events <- StoryEvents
    Requests = {r1, r2}
    Rows = {x1, x2}
    Keys = {k1, k2, k3, k4, k5}
    LeadEmail <- FourEmails
    LeadDomain <- FourDomains
    LeadPlan <- FourPlans
    InvoiceLead <- FourInvoiceLead
    Subscribed <- ThreeLeads
    OpenInvoices <- ThreeInvoices
    NoEvent = NoEvent
    NoRow = NoRow
    NoKey = NoKey
    NoCustomer = NoCustomer
    NoInvoice = NoInvoice
    MaxFaults <- StoryFaults
SYMMETRY Identities
ACTION_CONSTRAINT Told
INVARIANTS
    TypeOK
    OneHandlerPerEvent
    InvoiceMailedAtMostOnce
    AccessOnlyAfterPayment
    LookupIsUnambiguous
    WonLeadIsServed
    HandledPaymentIsBooked
    DeactivatedByItsOwnSubscription
PROPERTIES
    WebhookKeepsLeadWon
CHECK_DEADLOCK FALSE
