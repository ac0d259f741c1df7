--------------------------- MODULE WidgetBilling ---------------------------
(***************************************************************************)
(* The Stripe webhook of the widget business                                *)
(* (apps/web/src/app/api/widgets/stripe/webhook/route.ts): checkout and     *)
(* invoice events turn a sales lead into a customer row with a publisher    *)
(* key, keep that row's status, and mail keys and invoices.                 *)
(*                                                                          *)
(* Every Postgres statement and every call to Stripe or the mail provider   *)
(* is a step of its own, so the requests that serve deliveries interleave   *)
(* between any two awaits.  Checkout creates one subscription per lead, so  *)
(* a subscription is named by its lead.  Columns that only describe the     *)
(* billing period or a requested cancellation are not modelled.             *)
(***************************************************************************)
EXTENDS Naturals, FiniteSets

CONSTANTS
    Leads,        \* rows of widget_leads, one subscription each
    Direct,       \* those with a direct plan, named in their subscription's metadata
    Invoices,     \* Stripe invoices
    Events,       \* Stripe event objects (two objects may report the same fact)
    Requests,     \* webhook requests that can be served at the same time
    Rows,         \* ids of widget_customers rows
    Keys,         \* publisher keys
    LeadEmail, LeadDomain, LeadPlan,  \* columns of a lead, fixed at checkout
    InvoiceLead,  \* the subscription an invoice bills
    Subscribed,   \* leads whose checkout was completed and recorded before the start
    OpenInvoices, \* invoices finalized before the start
    NoEvent, NoRow, NoKey, NoCustomer, NoInvoice,
    MaxFaults     \* how many faults of each kind a behaviour may contain

CheckoutTypes == {"checkout.session.completed", "checkout.session.async_payment_succeeded"}
InvoiceTypes == {"invoice.finalized", "invoice.finalization_failed",
                 "invoice.payment_failed", "invoice.paid"}
SubscriptionTypes == {"customer.subscription.updated", "customer.subscription.deleted"}
EventTypes == CheckoutTypes \cup InvoiceTypes \cup SubscriptionTypes

\* paused stands for every status that no branch of the handler names.
SubscriptionStatus == {"none", "active", "past_due", "unpaid", "paused", "canceled"}
LeadStatus == {"new", "contacted", "qualified", "won", "lost"}
PipelineStages == {"new", "contacted", "checkout", "paid", "active", "lost"}
CustomerStatus == {"active", "past_due", "canceled", "inactive"}
Faults == {"error", "cleanup", "crash", "timeout", "uncertain", "stage"}

Emails == {LeadEmail[l] : l \in Leads}
Domains == {LeadDomain[l] : l \in Leads}
Plans == {LeadPlan[l] : l \in Leads}

\* limit is the plan whose request limit is stored in monthly_limit.
Customers == [email : Emails, domain : Domains, plan : Plans, limit : Plans,
              sub : Leads, status : CustomerStatus, key : Keys]

ASSUME EventsAssumption ==
    \A e \in Events : /\ e.type \in EventTypes
                      /\ e.lead \in Leads
                      /\ e.status \in SubscriptionStatus
                      /\ e.type \in InvoiceTypes =>
                            e.invoice \in Invoices /\ InvoiceLead[e.invoice] = e.lead

ASSUME InvoicesAssumption ==
    /\ InvoiceLead \in [Invoices -> Leads]
    /\ Direct \subseteq Leads
    /\ Subscribed \subseteq Leads
    /\ OpenInvoices \subseteq {i \in Invoices : InvoiceLead[i] \in Subscribed}

ASSUME NullsAssumption ==
    /\ NoEvent \notin Events
    /\ NoRow \notin Rows
    /\ NoKey \notin Keys
    /\ NoCustomer \notin Customers

ASSUME FaultsAssumption == MaxFaults \in [Faults -> Nat]

VARIABLES
    \* Stripe
    subscription,   \* status of each lead's subscription
    stripeInvoice,  \* status of each invoice
    emitted,        \* events Stripe has generated
    acked,          \* events Stripe has seen a 200 for and stops delivering
    \* Postgres
    billingEvents,  \* widget_billing_events: the claims
    leadStatus,     \* widget_leads.status
    leadCustomer,   \* widget_leads.customer_id
    customer,       \* widget_customers
    domains,        \* widget_customer_domains
    invoice,        \* widget_invoices.status, or "none" without a row
    invoiceSent,    \* whether widget_invoices.delivery_sent_at_utc is set
    outbox,         \* idempotency keys in the revenue and automation tables
    \* the web processes
    request,
    \* history
    handled,        \* events a handler finished
    issued,         \* keys ever stored
    keyMails,       \* <<lead, key>>: access mails the provider accepted
    invoiceMails,   \* confirmed invoice mails per invoice
    faults

stripeVars == <<subscription, stripeInvoice, emitted>>
inboxVars == <<acked, billingEvents, handled>>
leadVars == <<leadStatus, leadCustomer>>
customerVars == <<customer, domains, issued>>
invoiceVars == <<invoice, invoiceSent>>
mailVars == <<keyMails, invoiceMails>>
vars == <<stripeVars, inboxVars, leadVars, customerVars, invoiceVars, mailVars,
          outbox, request, faults>>

Idle == [at |-> "idle", event |-> NoEvent, seen |-> "new", row |-> NoRow, key |-> NoKey]

Steps == {"idle", "checkout", "status", "alert", "lead", "lookup", "update", "insert",
          "key", "domain", "keymail", "won", "activated", "invoice", "purchase",
          "claimmail", "invoicemail", "respond"}

RequestType == [at : Steps, event : Events \cup {NoEvent}, seen : LeadStatus,
                row : Rows \cup {NoRow}, key : Keys \cup {NoKey}]

-----------------------------------------------------------------------------
Exists(x) == customer[x] # NoCustomer
Busy(r) == request[r].at # "idle"
Working(e) == \E r \in Requests : Busy(r) /\ request[r].event = e

\* The rows that "stripe_subscription_id = $1 or lower(email) = lower($2)" selects.
Matching(l) == {x \in Rows : Exists(x) /\ (customer[x].sub = l \/ customer[x].email = LeadEmail[l])}

\* The row the statements keyed by stripe_subscription_id touch.
Billed(l) == {x \in Rows : Exists(x) /\ customer[x].sub = l}

\* createWidgetApiKey and randomUUID: never a value that was used before.
NoNewKey == NoKey  \* mutant
NewKey == CHOOSE k \in Keys : k \notin issued
NewRow == CHOOSE x \in Rows : ~Exists(x)
KeysLeft == \E k \in Keys : k \notin issued
RowsLeft == \E x \in Rows : ~Exists(x)

StartWith(subscribed, open, spent) ==
    /\ subscription = [l \in Leads |-> IF l \in subscribed THEN "active" ELSE "none"]
    /\ stripeInvoice = [i \in Invoices |-> IF i \in open THEN "open" ELSE "none"]
    /\ emitted = {} /\ acked = {} /\ billingEvents = {} /\ handled = {}
    /\ leadStatus = [l \in Leads |-> IF l \in subscribed THEN "qualified" ELSE "new"]
    /\ leadCustomer = [l \in Leads |-> NoRow]
    /\ customer = [x \in Rows |-> NoCustomer]
    /\ domains = [x \in Rows |-> {}]
    /\ invoice = [i \in Invoices |-> "none"]
    /\ invoiceSent = [i \in Invoices |-> FALSE]
    /\ outbox = {} /\ issued = {} /\ keyMails = {}
    /\ invoiceMails = [i \in Invoices |-> 0]
    /\ request = [r \in Requests |-> Idle]
    /\ faults = spent

Init == StartWith(Subscribed, OpenInvoices, [f \in Faults |-> 0])

Spend(f) == /\ faults[f] < MaxFaults[f]
            /\ faults' = [faults EXCEPT ![f] = @ + 1]

-----------------------------------------------------------------------------
(* Stripe: what happens to a subscription, and the event it generates.      *)

Emits(e, type) == /\ e \in Events \ emitted
                  /\ e.type = type
                  /\ emitted' = emitted \cup {e}
                  /\ UNCHANGED <<inboxVars, leadVars, customerVars, invoiceVars, mailVars,
                                 outbox, request, faults>>

\* SEPA checkout: the subscription runs while the first debit is still open.
CompleteCheckout(e) ==
    /\ Emits(e, "checkout.session.completed")
    /\ subscription[e.lead] = "none"
    /\ subscription' = [subscription EXCEPT ![e.lead] = "active"]
    /\ UNCHANGED stripeInvoice

\* ... and the debit that settles it later is reported by an event of its own.
SettleCheckout(e) ==
    /\ Emits(e, "checkout.session.async_payment_succeeded")
    /\ subscription[e.lead] # "none"
    /\ UNCHANGED <<subscription, stripeInvoice>>

FinalizeInvoice(e) ==
    /\ Emits(e, "invoice.finalized")
    /\ subscription[e.lead] \in {"active", "past_due"}
    /\ stripeInvoice[e.invoice] \in {"none", "draft"}
    /\ stripeInvoice' = [stripeInvoice EXCEPT ![e.invoice] = "open"]
    /\ UNCHANGED subscription

FailFinalization(e) ==
    /\ Emits(e, "invoice.finalization_failed")
    /\ subscription[e.lead] \in {"active", "past_due"}
    /\ stripeInvoice[e.invoice] = "none"
    /\ stripeInvoice' = [stripeInvoice EXCEPT ![e.invoice] = "draft"]
    /\ UNCHANGED subscription

\* Stripe may generate a second event object for the same payment.
PayInvoice(e) ==
    /\ Emits(e, "invoice.paid")
    /\ stripeInvoice[e.invoice] \in {"open", "paid"}
    /\ stripeInvoice' = [stripeInvoice EXCEPT ![e.invoice] = "paid"]
    /\ UNCHANGED subscription

FailPayment(e) ==
    /\ Emits(e, "invoice.payment_failed")
    /\ stripeInvoice[e.invoice] = "open"
    /\ UNCHANGED <<subscription, stripeInvoice>>

UpdateSubscription(e) ==
    /\ Emits(e, "customer.subscription.updated")
    /\ subscription[e.lead] \notin {"none", "canceled"}
    /\ subscription' = [subscription EXCEPT ![e.lead] = e.status]
    /\ UNCHANGED stripeInvoice

CancelSubscription(e) ==
    /\ Emits(e, "customer.subscription.deleted")
    /\ subscription[e.lead] \notin {"none", "canceled"}
    /\ subscription' = [subscription EXCEPT ![e.lead] = "canceled"]
    /\ UNCHANGED stripeInvoice

StripeStep == \E e \in Events :
    \/ CompleteCheckout(e) \/ SettleCheckout(e) \/ FinalizeInvoice(e) \/ FailFinalization(e)
    \/ PayInvoice(e) \/ FailPayment(e) \/ UpdateSubscription(e) \/ CancelSubscription(e)

-----------------------------------------------------------------------------
(* POST: claim the event, or answer 200 to a repeated delivery.             *)

\* Mutant: the completed checkout activates, before the debit is collected.
FirstStepEager(e) == CASE e.type \in CheckoutTypes \cup {"invoice.paid"} -> "lookup"
                       [] e.type \in InvoiceTypes \ {"invoice.paid"} -> "invoice"
                       [] e.type \in SubscriptionTypes -> "status"

FirstStep(e) == CASE e.type \in CheckoutTypes      -> "checkout"
                  [] e.type = "invoice.paid"       -> "lead"
                  [] e.type \in InvoiceTypes \ {"invoice.paid"} -> "invoice"
                  [] e.type \in SubscriptionTypes  -> "status"

\* Mutant: the rows the insert returned are not looked at.
ClaimUnchecked(r, e) ==
    /\ ~Busy(r)
    /\ billingEvents' = billingEvents \cup {e}
    /\ request' = [request EXCEPT ![r] = [Idle EXCEPT !.at = FirstStep(e), !.event = e]]
    /\ UNCHANGED <<stripeVars, acked, handled, leadVars, customerVars, invoiceVars, mailVars,
                   outbox>>

Claim(r, e) ==
    /\ ~Busy(r)
    /\ IF e \in billingEvents
       THEN /\ acked' = acked \cup {e}
            /\ UNCHANGED <<billingEvents, request>>
       ELSE /\ billingEvents' = billingEvents \cup {e}
            /\ request' = [request EXCEPT ![r] =
                              [Idle EXCEPT !.at = FirstStep(e), !.event = e]]
            /\ UNCHANGED acked
    /\ UNCHANGED <<stripeVars, handled, leadVars, customerVars, invoiceVars, mailVars, outbox>>

\* Stripe delivers an event until it sees a 200, in no particular order.
Deliver(r, e) == /\ e \in emitted \ acked
                 /\ ~Working(e)
                 /\ Claim(r, e)
                 /\ UNCHANGED faults

\* A handler that outlives Stripe's patience meets the next delivery of its event.
DeliverAfterTimeout(r, e) == /\ e \in emitted \ acked
                             /\ Working(e)
                             /\ Spend("timeout")
                             /\ Claim(r, e)

At(r, step) == request[r].at = step
Goto(r, step) == request' = [request EXCEPT ![r].at = step]
LeadOf(r) == request[r].event.lead
InvoiceOf(r) == request[r].event.invoice

-----------------------------------------------------------------------------
(* recordCompletedCheckout.  The confirmation mail's errors are caught.      *)

AnyLead(l) == TRUE  \* mutant
StillNew(l) == leadStatus[l] = "new"

RecordCompletedCheckout(r) ==
    /\ At(r, "checkout")
    /\ leadStatus' = IF StillNew(LeadOf(r))
                     THEN [leadStatus EXCEPT ![LeadOf(r)] = "qualified"]
                     ELSE leadStatus
    /\ Goto(r, "respond")
    /\ UNCHANGED <<stripeVars, inboxVars, leadCustomer, customerVars, invoiceVars, mailVars,
                   outbox, faults>>

-----------------------------------------------------------------------------
(* activatePaidWidgetSubscription                                            *)

\* Only a payment of a lead with a direct plan is booked.  Without one, or without a lead in the
\* subscription's metadata, the activation returns null; an invoice without a subscription is
\* such a payment too: the upsert it skips would find no row.
Activates(e) == e.type = "invoice.paid" /\ e.lead \in Direct

\* The lead's status is read here and used after several awaits.
ReadLead(r) ==
    /\ At(r, "lead")
    /\ request' = [request EXCEPT ![r].at = IF Activates(request[r].event) THEN "lookup" ELSE "invoice",
                                  ![r].seen = leadStatus[LeadOf(r)]]
    /\ UNCHANGED <<stripeVars, inboxVars, leadVars, customerVars, invoiceVars, mailVars,
                   outbox, faults>>

LookupCustomer(r) ==
    /\ At(r, "lookup")
    /\ \/ /\ Matching(LeadOf(r)) = {}
          /\ Goto(r, "insert")
       \/ \E x \in Matching(LeadOf(r)) :
             request' = [request EXCEPT ![r].at = "update", ![r].row = x]
    /\ UNCHANGED <<stripeVars, inboxVars, leadVars, customerVars, invoiceVars, mailVars,
                   outbox, faults>>

\* The unique indexes on lower(domain), stripe_subscription_id and lower(email).
DomainTaken(x, l) == \E y \in Rows \ {x} : Exists(y) /\ customer[y].domain = LeadDomain[l]
Clashes(x, l) == DomainTaken(x, l) \/ \E y \in Rows \ {x} : Exists(y) /\ customer[y].sub = l

NoEmailIndex(l) == FALSE  \* mutant
EmailTaken(l) == \E y \in Rows : Exists(y) /\ customer[y].email = LeadEmail[l]

\* Whether the lead was won before: then its key stays as it is.
SeenBefore(r) == request[r].seen # "new"  \* mutant
SeenWon(r) == request[r].seen = "won"

UpdateCustomer(r) ==
    LET l == LeadOf(r)
        x == request[r].row
    IN  /\ At(r, "update")
        /\ ~Clashes(x, l)
        /\ customer' = [customer EXCEPT ![x].status = "active", ![x].plan = LeadPlan[l],
                                        ![x].domain = LeadDomain[l], ![x].sub = l]
        /\ Goto(r, IF SeenWon(r) THEN "invoice" ELSE "key")
        /\ UNCHANGED <<stripeVars, inboxVars, leadVars, domains, issued, invoiceVars,
                       mailVars, outbox, faults>>

ReplaceKey(r) ==
    /\ At(r, "key")
    /\ KeysLeft
    /\ customer' = [customer EXCEPT ![request[r].row].key = NewKey]
    /\ issued' = issued \cup {NewKey}
    /\ request' = [request EXCEPT ![r].at = "domain", ![r].key = NewKey]
    /\ UNCHANGED <<stripeVars, inboxVars, leadVars, domains, invoiceVars, mailVars,
                   outbox, faults>>

InsertCustomer(r) ==
    LET l == LeadOf(r)
    IN  /\ At(r, "insert")
        /\ ~EmailTaken(l) /\ ~Clashes(NoRow, l)
        /\ RowsLeft /\ KeysLeft
        /\ customer' = [customer EXCEPT ![NewRow] =
              [email |-> LeadEmail[l], domain |-> LeadDomain[l], plan |-> LeadPlan[l],
               limit |-> LeadPlan[l], sub |-> l, status |-> "active", key |-> NewKey]]
        /\ issued' = issued \cup {NewKey}
        /\ request' = [request EXCEPT ![r].at = "domain", ![r].row = NewRow, ![r].key = NewKey]
        /\ UNCHANGED <<stripeVars, inboxVars, leadVars, domains, invoiceVars, mailVars,
                       outbox, faults>>

\* Mutant: the lead is won without waiting for the mail.
EnsureDomainAndWin(r) ==
    /\ At(r, "domain")
    /\ domains' = [domains EXCEPT ![request[r].row] = @ \cup {LeadDomain[LeadOf(r)]}]
    /\ Goto(r, "won")
    /\ UNCHANGED <<stripeVars, inboxVars, leadVars, customer, issued, invoiceVars, mailVars,
                   outbox, faults>>

EnsureDomain(r) ==
    /\ At(r, "domain")
    /\ domains' = [domains EXCEPT ![request[r].row] = @ \cup {LeadDomain[LeadOf(r)]}]
    /\ Goto(r, "keymail")
    /\ UNCHANGED <<stripeVars, inboxVars, leadVars, customer, issued, invoiceVars, mailVars,
                   outbox, faults>>

SendAccessEmail(r) ==
    /\ At(r, "keymail")
    /\ keyMails' = keyMails \cup {<<LeadOf(r), request[r].key>>}
    /\ Goto(r, "won")
    /\ UNCHANGED <<stripeVars, inboxVars, leadVars, customerVars, invoiceVars, invoiceMails,
                   outbox, faults>>

MarkLeadWon(r) ==
    /\ At(r, "won")
    /\ leadStatus' = [leadStatus EXCEPT ![LeadOf(r)] = "won"]
    /\ leadCustomer' = [leadCustomer EXCEPT ![LeadOf(r)] = request[r].row]
    /\ Goto(r, "activated")
    /\ UNCHANGED <<stripeVars, inboxVars, customerVars, invoiceVars, mailVars, outbox, faults>>

RecordActivation(r) ==
    /\ At(r, "activated")
    /\ outbox' = outbox \cup {<<"customer_activated", request[r].row>>}
    /\ Goto(r, "invoice")
    /\ UNCHANGED <<stripeVars, inboxVars, leadVars, customerVars, invoiceVars, mailVars, faults>>

-----------------------------------------------------------------------------
(* The rest of handleStripeEvent                                             *)

\* invoice.status as the event object carries it.
SnapshotStatus(type) == CASE type = "invoice.paid" -> "paid"
                          [] type = "invoice.finalization_failed" -> "draft"
                          [] OTHER -> "open"

\* insert ... select from widget_customers: without a billed row nothing is written.
UpsertInvoice(r) ==
    LET e == request[r].event
    IN  /\ At(r, "invoice")
        /\ invoice' = IF Billed(e.lead) = {} THEN invoice
                      ELSE [invoice EXCEPT ![e.invoice] = SnapshotStatus(e.type)]
        /\ Goto(r, CASE Activates(e) -> "purchase"
                     [] e.type \in {"invoice.paid", "invoice.finalized"} /\ ~Activates(e) -> "respond"
                     [] OTHER -> "status")
        /\ UNCHANGED <<stripeVars, inboxVars, leadVars, customerVars, invoiceSent, mailVars,
                       outbox, faults>>

\* An update to a status without a branch leaves the row as it is.
NoBranch(e) == e.type = "customer.subscription.updated" /\ e.status = "paused"

\* The customer status an event calls for.
StatusFor(e) == CASE e.type \in InvoiceTypes -> "past_due"
                  [] e.type = "customer.subscription.deleted" -> "canceled"
                  [] OTHER -> IF e.status \in {"active", "past_due"} THEN e.status ELSE "inactive"

SetCustomerStatus(r) ==
    LET e == request[r].event
    IN  /\ At(r, "status")
        /\ customer' = [x \in Rows |-> IF x \in Billed(e.lead) /\ ~NoBranch(e)
                                       THEN [customer[x] EXCEPT !.status = StatusFor(e)]
                                       ELSE customer[x]]
        /\ Goto(r, IF e.type = "invoice.payment_failed" THEN "alert" ELSE "respond")
        /\ UNCHANGED <<stripeVars, inboxVars, leadVars, domains, issued, invoiceVars,
                       mailVars, outbox, faults>>

QueuePaymentFailure(r) ==
    /\ At(r, "alert")
    /\ outbox' = IF Billed(LeadOf(r)) = {} THEN outbox
                 ELSE outbox \cup {<<"payment_failed", InvoiceOf(r)>>}
    /\ Goto(r, "respond")
    /\ UNCHANGED <<stripeVars, inboxVars, leadVars, customerVars, invoiceVars, mailVars, faults>>

\* Mutant: the purchase is booked through the customer row, like a failed payment.
RecordBilledPurchase(r) ==
    /\ At(r, "purchase")
    /\ outbox' = IF Billed(LeadOf(r)) = {} THEN outbox
                 ELSE outbox \cup {<<"purchase", InvoiceOf(r)>>}
    /\ Goto(r, "claimmail")
    /\ UNCHANGED <<stripeVars, inboxVars, leadVars, customerVars, invoiceVars, mailVars, faults>>

RecordPurchase(r) ==
    /\ At(r, "purchase")
    /\ outbox' = outbox \cup {<<"purchase", InvoiceOf(r)>>}
    /\ Goto(r, "claimmail")
    /\ UNCHANGED <<stripeVars, inboxVars, leadVars, customerVars, invoiceVars, mailVars, faults>>

\* sendWidgetInvoiceEmailOnce: the claim, then the mail.
Invoiced(i) == invoice[i] # "none"  \* mutant
Unmailed(i) == invoice[i] # "none" /\ ~invoiceSent[i]

ClaimInvoiceMail(r) ==
    LET i == InvoiceOf(r)
    IN  /\ At(r, "claimmail")
        /\ invoiceSent' = IF Unmailed(i) THEN [invoiceSent EXCEPT ![i] = TRUE] ELSE invoiceSent
        /\ Goto(r, IF Unmailed(i) THEN "invoicemail" ELSE "respond")
        /\ UNCHANGED <<stripeVars, inboxVars, leadVars, customerVars, invoice, mailVars,
                       outbox, faults>>

SendInvoiceEmail(r) ==
    /\ At(r, "invoicemail")
    /\ invoiceMails' = [invoiceMails EXCEPT ![InvoiceOf(r)] = @ + 1]
    /\ Goto(r, "respond")
    /\ UNCHANGED <<stripeVars, inboxVars, leadVars, customerVars, invoiceVars, keyMails,
                   outbox, faults>>

\* Mutant: the catch block's clean-up and 500 follow a success too.
RespondFailing(r) ==
    /\ At(r, "respond")
    /\ billingEvents' = billingEvents \ {request[r].event}
    /\ handled' = handled \cup {request[r].event}
    /\ request' = [request EXCEPT ![r] = Idle]
    /\ UNCHANGED <<stripeVars, acked, leadVars, customerVars, invoiceVars, mailVars, outbox,
                   faults>>

Respond(r) ==
    /\ At(r, "respond")
    /\ acked' = acked \cup {request[r].event}
    /\ handled' = handled \cup {request[r].event}
    /\ request' = [request EXCEPT ![r] = Idle]
    /\ UNCHANGED <<stripeVars, billingEvents, leadVars, customerVars, invoiceVars, mailVars,
                   outbox, faults>>

-----------------------------------------------------------------------------
(* Errors.  The catch block withdraws the claim and answers 500; a failed    *)
(* invoice mail withdraws its own claim first.                               *)

CanFail(r) == Busy(r) /\ ~At(r, "respond")

\* Mutant: the claim stays.
WithdrawMailOnly(r) ==
    /\ UNCHANGED billingEvents
    /\ invoiceSent' = IF At(r, "invoicemail")
                      THEN [invoiceSent EXCEPT ![InvoiceOf(r)] = FALSE]
                      ELSE invoiceSent
    /\ request' = [request EXCEPT ![r] = Idle]

\* A thrown error whose clean-up statements succeed.
Withdraw(r) ==
    /\ billingEvents' = billingEvents \ {request[r].event}
    /\ invoiceSent' = IF At(r, "invoicemail")
                      THEN [invoiceSent EXCEPT ![InvoiceOf(r)] = FALSE]
                      ELSE invoiceSent
    /\ request' = [request EXCEPT ![r] = Idle]

Fail(r) ==
    /\ CanFail(r)
    /\ Spend("error")
    /\ Withdraw(r)
    /\ UNCHANGED <<stripeVars, acked, handled, leadVars, customerVars, invoice, mailVars, outbox>>

\* A unique index refuses the row; no fault is needed for this error.
RefuseDuplicate(r) ==
    /\ \/ At(r, "insert") /\ (EmailTaken(LeadOf(r)) \/ Clashes(NoRow, LeadOf(r)))
       \/ At(r, "update") /\ Clashes(request[r].row, LeadOf(r))
    /\ Withdraw(r)
    /\ UNCHANGED <<stripeVars, acked, handled, leadVars, customerVars, invoice, mailVars,
                   outbox, faults>>

\* The provider took the access mail, but its answer never arrived.
FailAfterAccessEmail(r) ==
    /\ At(r, "keymail")
    /\ Spend("uncertain")
    /\ keyMails' = keyMails \cup {<<LeadOf(r), request[r].key>>}
    /\ Withdraw(r)
    /\ UNCHANGED <<stripeVars, acked, handled, leadVars, customerVars, invoice, invoiceMails,
                   outbox>>

\* The clean-up fails too; its errors are swallowed and both claims may stay.
FailUnclean(r) ==
    /\ CanFail(r)
    /\ Spend("cleanup")
    /\ billingEvents' \in {billingEvents, billingEvents \ {request[r].event}}
    /\ \/ UNCHANGED invoiceSent
       \/ /\ At(r, "invoicemail")
          /\ invoiceSent' = [invoiceSent EXCEPT ![InvoiceOf(r)] = FALSE]
    /\ request' = [request EXCEPT ![r] = Idle]
    /\ UNCHANGED <<stripeVars, acked, handled, leadVars, customerVars, invoice, mailVars,
                   outbox>>

\* The process dies between two statements.
Crash(r) ==
    /\ Busy(r)
    /\ Spend("crash")
    /\ request' = [request EXCEPT ![r] = Idle]
    /\ UNCHANGED <<stripeVars, inboxVars, leadVars, customerVars, invoiceVars, mailVars, outbox>>

-----------------------------------------------------------------------------
(* The lead cockpit's PATCH writes the status that belongs to a stage.       *)

StatusOfStage(stage, old) == CASE stage = "contacted" -> "contacted"
                               [] stage \in {"checkout", "paid"} -> "qualified"
                               [] stage = "active" -> "won"
                               [] stage = "lost" -> "lost"
                               [] OTHER -> old

SetPipelineStage(l, stage) ==
    /\ Spend("stage")
    /\ leadStatus' = [leadStatus EXCEPT ![l] = StatusOfStage(stage, @)]
    /\ UNCHANGED <<stripeVars, inboxVars, leadCustomer, customerVars, invoiceVars, mailVars,
                   outbox, request>>

-----------------------------------------------------------------------------
HandlerStep(r) ==
    \/ RecordCompletedCheckout(r) \/ ReadLead(r) \/ LookupCustomer(r) \/ UpdateCustomer(r)
    \/ ReplaceKey(r) \/ InsertCustomer(r) \/ EnsureDomain(r) \/ SendAccessEmail(r)
    \/ MarkLeadWon(r) \/ RecordActivation(r) \/ UpsertInvoice(r) \/ SetCustomerStatus(r)
    \/ QueuePaymentFailure(r) \/ RecordPurchase(r) \/ ClaimInvoiceMail(r)
    \/ SendInvoiceEmail(r) \/ Respond(r) \/ RefuseDuplicate(r)

FaultStep(r) == Fail(r) \/ FailAfterAccessEmail(r) \/ FailUnclean(r) \/ Crash(r)

Delivery(r) == \E e \in Events : Deliver(r, e) \/ DeliverAfterTimeout(r, e)

Next == \/ StripeStep
        \/ \E r \in Requests : Delivery(r) \/ HandlerStep(r) \/ FaultStep(r)
        \/ \E l \in Leads, stage \in PipelineStages : SetPipelineStage(l, stage)

Spec == Init /\ [][Next]_vars

\* Stripe keeps delivering what was not answered with a 200, and a request that
\* is being served goes on; nobody promises a payment, a fault or a click.
Fairness == /\ \A r \in Requests : WF_vars(HandlerStep(r))
            /\ \A e \in Events : WF_vars(\E r \in Requests : Deliver(r, e))

FairSpec == Spec /\ Fairness

-----------------------------------------------------------------------------
(* Properties                                                                *)

\* Every table and request holds what the code can write there.
TypeOK ==
    /\ subscription \in [Leads -> SubscriptionStatus]
    /\ stripeInvoice \in [Invoices -> {"none", "draft", "open", "paid"}]
    /\ emitted \subseteq Events /\ acked \subseteq Events
    /\ billingEvents \subseteq Events /\ handled \subseteq Events
    /\ leadStatus \in [Leads -> LeadStatus]
    /\ leadCustomer \in [Leads -> Rows \cup {NoRow}]
    /\ customer \in [Rows -> Customers \cup {NoCustomer}]
    /\ domains \in [Rows -> SUBSET Domains]
    /\ invoice \in [Invoices -> {"none", "draft", "open", "paid"}]
    /\ invoiceSent \in [Invoices -> BOOLEAN]
    /\ issued \subseteq Keys
    /\ keyMails \subseteq Leads \X Keys
    /\ invoiceMails \in [Invoices -> Nat]
    /\ request \in [Requests -> RequestType]
    /\ faults \in [Faults -> Nat]
    /\ outbox \subseteq ({"customer_activated"} \X Rows)
                          \cup ({"purchase", "payment_failed"} \X Invoices)

\* Two requests never work on the same event: the claim row is taken before any work
\* and given back only by the request that holds it, as its last statement.
OneHandlerPerEvent ==
    \A r, s \in Requests :
        Busy(r) /\ Busy(s) /\ request[r].event = request[s].event => r = s

\* A customer row, and with it a publisher key, exists only for a subscription that
\* Stripe has collected an invoice for, whatever else is delivered, lost or repeated.
AccessOnlyAfterPayment ==
    \A x \in Rows : Exists(x) =>
        \E i \in Invoices : InvoiceLead[i] = customer[x].sub /\ stripeInvoice[i] = "paid"

\* The lookup "stripe_subscription_id = $1 or lower(email) = lower($2) limit 1" has no
\* order by: activation is well defined only because no lead ever matches two rows.
LookupIsUnambiguous ==
    \A l \in Leads : \A x, y \in Matching(l) : x = y

\* A lead is linked to its customer by markLeadWon after everything the buyer paid for
\* is in place: the row of the buyer's address, the approved domain, and an access mail
\* the provider took.
WonLeadIsServed ==
    \A l \in Leads : leadCustomer[l] # NoRow =>
        LET x == leadCustomer[l]
        IN  /\ Exists(x) /\ customer[x].email = LeadEmail[l]
            /\ LeadDomain[l] \in domains[x]
            /\ \E k \in Keys : <<l, k>> \in keyMails

\* However often a payment is reported, retried or raced, the provider confirms at most
\* one invoice mail per invoice.
InvoiceMailedAtMostOnce == \A i \in Invoices : invoiceMails[i] <= 1

\* A buyer with two subscriptions has one row: the end of one of them, reported late or
\* twice, never cancels a row that the other one is billed through.
DeactivatedByItsOwnSubscription ==
    \A x \in Rows : Exists(x) /\ customer[x].status = "canceled" =>
        subscription[customer[x].sub] = "canceled"

\* A paid invoice of a direct plan whose event was handled is booked as a purchase and belongs
\* to a customer row of the buyer: nothing is answered with a 200 half done.
HandledPaymentIsBooked ==
    \A e \in handled : Activates(e) =>
        /\ <<"purchase", e.invoice>> \in outbox
        /\ \E x \in Rows : Exists(x) /\ customer[x].email = LeadEmail[e.lead]

Quiet == /\ emitted \subseteq acked
         /\ \A r \in Requests : ~Busy(r)

\* When every payment was delivered and no request is open, the key stored for a
\* customer is one that was mailed: a retry after a failed mail replaces the key again.
StoredKeyWasMailed ==
    Quiet => \A x \in Rows : Exists(x) =>
                \E l \in Leads : <<l, customer[x].key>> \in keyMails

\* No delivery, late, repeated or failing, takes a lead back from "won"; only the
\* cockpit does (a step that spends "stage").
WebhookKeepsLeadWon ==
    [][faults'["stage"] = faults["stage"] =>
          \A l \in Leads : leadStatus[l] = "won" => leadStatus'[l] = "won"]_vars

StageOf(e) == IF e \notin emitted THEN "unsent"
              ELSE IF Working(e) THEN "working"
              ELSE IF e \in handled THEN "handled"
              ELSE IF e \in billingEvents THEN "dropped"
              ELSE "pending"

\* Each event is worked on by one request at a time and never again once it was handled.
Inbox == INSTANCE WebhookInbox WITH stage <- [e \in Events |-> StageOf(e)]
ImplementsInbox == Inbox!Spec

\* Another buyer's row has the lead's domain: the order form does not look, the index refuses.
Refused(l) ==
    \E y \in Rows : Exists(y) /\ customer[y].domain = LeadDomain[l] /\ customer[y].email # LeadEmail[l]

\* While no process dies and no clean-up fails, errors only delay an event: it is handled, unless
\* another buyer's row has the domain of its lead from some moment on, for ever.
EveryEventIsHandled ==
    \A e \in Events : e \in emitted ~> (e \in handled \/ []Refused(e.lead))

\* ... and a buyer of a direct plan whose invoice is collected ends up with access, unless refused
\* for ever in that way.
PaymentLeadsToAccess ==
    \A i \in Invoices : stripeInvoice[i] = "paid" /\ InvoiceLead[i] \in Direct
                          ~> (leadCustomer[InvoiceLead[i]] # NoRow \/ []Refused(InvoiceLead[i]))

-----------------------------------------------------------------------------
(* What the documentation says and the code does not keep.                   *)

\* "canceled or unpaid subscriptions are deactivated": once everything is delivered, the
\* row of a canceled subscription is not active.
CanceledIsDeactivated ==
    Quiet => \A x \in Rows : Exists(x) /\ subscription[customer[x].sub] = "canceled" =>
                customer[x].status # "active"

\* "For every invoice.paid event, the billing email receives a localized message": also where
\* the event was handled to its end, whatever failed before.
PaidInvoiceIsMailed ==
    Quiet => \A e \in handled : Activates(e) => invoiceMails[e.invoice] > 0

\* Sales and enforcement limits come from one plan source: a row is metered with the
\* limit of the plan it is on.
LimitMatchesPlan == \A x \in Rows : Exists(x) => customer[x].limit = customer[x].plan
=============================================================================
