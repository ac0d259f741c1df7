-------------------------- MODULE MCWidgetBilling --------------------------
(***************************************************************************)
(* Scenarios for WidgetBilling: which leads, invoices and Stripe events      *)
(* exist, and how many faults of each kind a behaviour may contain.          *)
(***************************************************************************)
EXTENDS WidgetBilling, TLC

CONSTANTS l1, l2, l3, i1, i2, i3

InvoiceEvent(type, i, l, copy) ==
    [type |-> type, lead |-> l, invoice |-> i, status |-> "none", copy |-> copy]
LeadEvent(type, l, status) ==
    [type |-> type, lead |-> l, invoice |-> NoInvoice, status |-> status, copy |-> 1]

Checkout(l) == LeadEvent("checkout.session.completed", l, "none")
Settled(l) == LeadEvent("checkout.session.async_payment_succeeded", l, "none")
Updated(l, status) == LeadEvent("customer.subscription.updated", l, status)
Deleted(l) == LeadEvent("customer.subscription.deleted", l, "none")
Finalized(i, l) == InvoiceEvent("invoice.finalized", i, l, 1)
Unfinalized(i, l) == InvoiceEvent("invoice.finalization_failed", i, l, 1)
Unpaid(i, l) == InvoiceEvent("invoice.payment_failed", i, l, 1)
Paid(i, l) == InvoiceEvent("invoice.paid", i, l, 1)
PaidAgain(i, l) == InvoiceEvent("invoice.paid", i, l, 2)

NoFaults == [f \in Faults |-> 0]
Only(F) == [f \in Faults |-> IF f \in F THEN 1 ELSE 0]

\* One buyer, one invoice, the payment reported by two event objects.
OneLead == {l1}
OneInvoice == {i1}
OneEmail == [l \in {l1, l2} |-> "buyer"]
OneDomain == [l \in {l1} |-> "site"]
OnePlan == [l \in {l1} |-> "starter"]
OneInvoiceLead == [i \in {i1} |-> l1]
PaymentEvents == {Paid(i1, l1), PaidAgain(i1, l1)}
WebhookFaults == Only(Faults \ {"stage"})

\* A buyer who comes back for another plan and another domain.
TwoLeads == {l1, l2}
TwoInvoices == {i1, i2}
TwoDomains == [l \in TwoLeads |-> IF l = l1 THEN "site" ELSE "othersite"]
TwoPlans == [l \in TwoLeads |-> IF l = l1 THEN "starter" ELSE "growth"]
TwoInvoiceLead == [i \in TwoInvoices |-> IF i = i1 THEN l1 ELSE l2]
ReturningEvents == {Paid(i1, l1), Paid(i2, l2)}
RetriedFaults == Only({"error", "uncertain"})

\* ... and a colleague who orders for the first domain.
ThreeLeads == {l1, l2, l3}
ThreeInvoices == {i1, i2, i3}
TwoEmails == [l \in Leads |-> IF l = l3 THEN "colleague" ELSE "buyer"]
SharedDomains == [l \in Leads |-> IF l = l2 THEN "othersite" ELSE "site"]
ThreePlans == [l \in Leads |-> IF l = l2 THEN "growth" ELSE "starter"]
ThreeInvoiceLead == [i \in Invoices |-> CASE i = i1 -> l1 [] i = i2 -> l2 [] OTHER -> l3]
SharingEvents == {Paid(i1, l1), Paid(i2, l2), Paid(i3, l3)}

\* A subscription that is paid, recovers from a failed debit and is canceled.
EndingEvents == {Paid(i1, l1), Updated(l1, "active"), Deleted(l1)}

Identities == Permutations(Requests)
=============================================================================
