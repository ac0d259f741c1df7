------------------------ MODULE WidgetBillingProofs ------------------------
(***************************************************************************)
(* WidgetBilling, for every set of leads, invoices, events and requests and  *)
(* every number of faults.  First its types: TypeOK is not inductive, since a *)
(* step that writes the row or mails the key a request carries needs to know *)
(* that the request has one, which depends on where it stands; RequestOK     *)
(* says so.  Then its safety properties, each resting on the ones before it: *)
(* claims, payments, cancellations, rows, mails, books, keys.                *)
(***************************************************************************)
EXTENDS WidgetBilling, TLAPS

\* A new key was never stored.
LEMMA NewKeyIsFresh ==
    ASSUME KeysLeft
    PROVE  NewKey \in Keys /\ NewKey \notin issued
BY DEF KeysLeft, NewKey

\* A new row id names no customer.
LEMMA NewRowIsFree ==
    ASSUME RowsLeft
    PROVE  NewRow \in Rows /\ ~Exists(NewRow)
BY DEF RowsLeft, NewRow

-----------------------------------------------------------------------------
\* The steps at which a request knows its row, its key, a payment, an invoice.
RowSteps == {"update", "key", "domain", "keymail", "won", "activated"}
KeySteps == {"domain", "keymail", "won"}
PaidSteps == RowSteps \cup {"lead", "lookup", "insert", "purchase", "claimmail", "invoicemail"}
InvoiceSteps == PaidSteps \cup {"invoice", "alert"}

RequestOK(r) ==
    LET q == request[r]
    IN  /\ q.at # "idle" => q.event \in Events
        /\ q.at \in RowSteps => q.row \in Rows /\ Exists(q.row)
        /\ q.at \in KeySteps => q.key \in Keys
        /\ q.at \in PaidSteps => q.event.type = "invoice.paid"
        /\ q.at \in PaidSteps \ {"lead"} => Activates(q.event)
        /\ q.at \in InvoiceSteps => q.event.type \in InvoiceTypes
        /\ q.at = "checkout" => q.event.type \in CheckoutTypes
        /\ q.at \in {"status", "alert"} => q.event.type \notin CheckoutTypes \cup {"invoice.paid"}

\* The inductive strengthening of TypeOK.
Typed == TypeOK /\ \A r \in Requests : RequestOK(r)

USE DEF stripeVars, inboxVars, leadVars, customerVars, invoiceVars, mailVars

\* A request that serves nothing is well typed.
LEMMA IdleType == Idle \in RequestType
BY DEF Idle, RequestType, Steps, LeadStatus

\* Typed holds initially.
LEMMA TypedInit == Init => Typed
  <1> SUFFICES ASSUME Init PROVE Typed
    OBVIOUS
  <1>1. TypeOK
    BY IdleType, InvoicesAssumption DEF Init, StartWith, TypeOK, SubscriptionStatus, LeadStatus
  <1>2. \A r \in Requests : RequestOK(r)
    BY DEF Init, StartWith, Idle, RequestOK, RowSteps, KeySteps, PaidSteps, InvoiceSteps
  <1> QED BY <1>1, <1>2 DEF Typed

\* Replacing one request's record leaves the others alone.
LEMMA Moved ==
    ASSUME request \in [Requests -> RequestType], NEW r \in Requests, NEW q \in RequestType,
           request' = [request EXCEPT ![r] = q]
    PROVE  /\ request' \in [Requests -> RequestType]
           /\ request'[r] = q
           /\ \A s \in Requests \ {r} : request'[s] = request[s]
OBVIOUS

\* Goto changes where a request stands and nothing else.
LEMMA Stepped ==
    ASSUME request \in [Requests -> RequestType], NEW r \in Requests, NEW at \in Steps,
           Goto(r, at)
    PROVE  /\ request' \in [Requests -> RequestType]
           /\ request'[r].at = at
           /\ request'[r].event = request[r].event
           /\ request'[r].seen = request[r].seen
           /\ request'[r].row = request[r].row
           /\ request'[r].key = request[r].key
           /\ \A s \in Requests \ {r} : request'[s] = request[s]
BY DEF Goto, RequestType

\* Customer rows are never deleted, so what other requests know stays true.
LEMMA OthersStayOK ==
    ASSUME Typed, NEW r \in Requests,
           \A s \in Requests \ {r} : request'[s] = request[s],
           \A x \in Rows : Exists(x) => Exists(x)',
           RequestOK(r)'
    PROVE  \A s \in Requests : RequestOK(s)'
  <1> SUFFICES ASSUME NEW s \in Requests \ {r} PROVE RequestOK(s)'
    OBVIOUS
  <1> QED BY DEF Typed, RequestOK

\* A customer row stays one when its status changes.
LEMMA WithStatus ==
    ASSUME NEW c \in Customers, NEW s \in CustomerStatus
    PROVE  [c EXCEPT !.status = s] \in Customers
BY DEF Customers

\* Stripe's own steps preserve Typed.
LEMMA TypedStripe ==
    ASSUME Typed, StripeStep
    PROVE  Typed'
  <1>1. PICK e \in Events :
           \/ CompleteCheckout(e) \/ SettleCheckout(e) \/ FinalizeInvoice(e) \/ FailFinalization(e)
           \/ PayInvoice(e) \/ FailPayment(e) \/ UpdateSubscription(e) \/ CancelSubscription(e)
    BY DEF StripeStep
  <1>2. /\ subscription' \in [Leads -> SubscriptionStatus]
        /\ stripeInvoice' \in [Invoices -> {"none", "draft", "open", "paid"}]
        /\ emitted' \subseteq Events
        /\ UNCHANGED <<inboxVars, leadVars, customerVars, invoiceVars, mailVars, outbox,
                       request, faults>>
    BY <1>1, EventsAssumption
    DEF Typed, TypeOK, CompleteCheckout, SettleCheckout, FinalizeInvoice, FailFinalization, PayInvoice,
        FailPayment, UpdateSubscription, CancelSubscription, Emits, SubscriptionStatus
  <1> QED
    BY <1>2 DEF Typed, TypeOK, RequestOK, Exists

\* What one handler step leaves behind, for its own request and for the others.
StepOK(r) == /\ TypeOK'
             /\ RequestOK(r)'
             /\ \A s \in Requests \ {r} : request'[s] = request[s]
             /\ \A x \in Rows : Exists(x) => Exists(x)'

\* Every step of a handler preserves the types and what its request knows.
LEMMA TypedHandler ==
    ASSUME Typed, NEW r \in Requests, HandlerStep(r)
    PROVE  StepOK(r)
  <1> USE EventsAssumption, NullsAssumption
      DEF StepOK, Typed, TypeOK, RequestOK, Exists, At, LeadOf, InvoiceOf, RowSteps, KeySteps,
          PaidSteps, InvoiceSteps, InvoiceTypes
  <1>0. request[r] \in RequestType
    OBVIOUS
  <1>00. Steps = {"idle", "checkout", "status", "alert", "lead", "lookup", "update", "insert",
          "key", "domain", "keymail", "won", "activated", "invoice", "purchase",
          "claimmail", "invoicemail", "respond"}
    BY DEF Steps
  <1>1. CASE RecordCompletedCheckout(r)
    BY <1>1, <1>00, Stepped DEF RecordCompletedCheckout, LeadStatus
  <1>2. CASE ReadLead(r)
    <2>1. LeadOf(r) \in Leads /\ leadStatus[LeadOf(r)] \in LeadStatus
      BY <1>2 DEF ReadLead
    <2>2. \A at \in {"lookup", "invoice"} :
             [request[r] EXCEPT !.at = at, !.seen = leadStatus[LeadOf(r)]] \in RequestType
      BY <1>0, <1>00, <2>1 DEF RequestType
    <2>3. PICK at \in {"lookup", "invoice"} :
             /\ at = "lookup" => Activates(request[r].event)
             /\ request' = [request EXCEPT ![r] =
                               [request[r] EXCEPT !.at = at, !.seen = leadStatus[LeadOf(r)]]]
      BY <1>2 DEF ReadLead
    <2>4. /\ request' \in [Requests -> RequestType]
          /\ request'[r].at = at /\ request'[r].event = request[r].event
          /\ \A s \in Requests \ {r} : request'[s] = request[s]
      BY <1>0, <2>2, <2>3 DEF RequestType
    <2> QED
      BY <1>2, <2>3, <2>4 DEF ReadLead
  <1>3. CASE LookupCustomer(r)
    <2>1. CASE Goto(r, "insert")
      BY <1>3, <2>1, <1>00, Stepped DEF LookupCustomer
    <2>2. CASE ~Goto(r, "insert")
      <3>1. PICK x \in Matching(LeadOf(r)) :
              request' = [request EXCEPT ![r].at = "update", ![r].row = x]
        BY <1>3, <2>2 DEF LookupCustomer
      <3>2. x \in Rows /\ Exists(x)
        BY <3>1 DEF Matching
      <3>3. [request[r] EXCEPT !.at = "update", !.row = x] \in RequestType
        BY <1>0, <1>00, <3>2 DEF RequestType
      <3> QED
        BY <1>3, <1>0, <3>1, <3>2, <3>3 DEF LookupCustomer, RequestType
    <2> QED BY <2>1, <2>2
  <1>4. CASE UpdateCustomer(r)
    <2> DEFINE l == LeadOf(r)
               x == request[r].row
               c == [customer[x] EXCEPT !.status = "active", !.plan = LeadPlan[l],
                                        !.domain = LeadDomain[l], !.sub = l]
    <2>1. l \in Leads /\ x \in Rows /\ customer[x] \in Customers
      BY <1>4 DEF UpdateCustomer
    <2>2. c \in Customers
      BY <2>1 DEF Customers, CustomerStatus, Domains, Plans
    <2>3. customer' = [customer EXCEPT ![x] = c]
      BY <1>4 DEF UpdateCustomer
    <2>4. customer' \in [Rows -> Customers \cup {NoCustomer}]
          /\ \A y \in Rows : Exists(y) => Exists(y)'
      BY <2>1, <2>2, <2>3
    <2>5. Goto(r, "invoice") \/ Goto(r, "key")
      BY <1>4 DEF UpdateCustomer
    <2> QED
      BY <1>4, <1>00, <2>1, <2>4, <2>5, Stepped DEF UpdateCustomer
  <1>5. CASE ReplaceKey(r)
    <2> DEFINE x == request[r].row
               c == [customer[x] EXCEPT !.key = NewKey]
               q == [request[r] EXCEPT !.at = "domain", !.key = NewKey]
    <2>1. NewKey \in Keys /\ x \in Rows /\ customer[x] \in Customers
      BY <1>5, NewKeyIsFresh DEF ReplaceKey
    <2>2. c \in Customers
      BY <2>1 DEF Customers
    <2>3. customer' = [customer EXCEPT ![x] = c] /\ request' = [request EXCEPT ![r] = q]
      BY <1>5 DEF ReplaceKey
    <2>4. customer' \in [Rows -> Customers \cup {NoCustomer}]
          /\ \A y \in Rows : Exists(y) => Exists(y)'
      BY <2>1, <2>2, <2>3
    <2>5. q \in RequestType
      BY <1>0, <1>00, <2>1 DEF RequestType
    <2>6. /\ request' \in [Requests -> RequestType] /\ request'[r] = q
          /\ \A s \in Requests \ {r} : request'[s] = request[s]
      BY <2>3, <2>5, Moved
    <2>7. /\ q.at = "domain" /\ q.key = NewKey /\ q.row = x /\ q.event = request[r].event
      BY <1>0 DEF RequestType
    <2> HIDE DEF q, c
    <2> QED
      BY <1>5, <2>1, <2>4, <2>6, <2>7 DEF ReplaceKey
  <1>6. CASE InsertCustomer(r)
    <2> DEFINE l == LeadOf(r)
               c == [email |-> LeadEmail[l], domain |-> LeadDomain[l], plan |-> LeadPlan[l],
                     limit |-> LeadPlan[l], sub |-> l, status |-> "active", key |-> NewKey]
               q == [request[r] EXCEPT !.at = "domain", !.row = NewRow, !.key = NewKey]
    <2>1. NewKey \in Keys /\ NewRow \in Rows /\ l \in Leads
      BY <1>6, NewKeyIsFresh, NewRowIsFree DEF InsertCustomer
    <2>2. c \in Customers
      BY <2>1 DEF Customers, Emails, Domains, Plans, CustomerStatus
    <2>3. customer' = [customer EXCEPT ![NewRow] = c] /\ request' = [request EXCEPT ![r] = q]
      BY <1>6 DEF InsertCustomer
    <2>4. q \in RequestType
      BY <1>0, <1>00, <2>1 DEF RequestType
    <2>5. /\ q.at = "domain" /\ q.key = NewKey /\ q.row = NewRow
          /\ q.event = request[r].event
      BY <1>0 DEF RequestType
    <2> HIDE DEF q, c
    <2>6. /\ customer' \in [Rows -> Customers \cup {NoCustomer}]
          /\ \A y \in Rows : Exists(y) => Exists(y)'
          /\ customer'[NewRow] # NoCustomer
      BY <2>1, <2>2, <2>3
    <2>7. /\ request' \in [Requests -> RequestType] /\ request'[r] = q
          /\ \A s \in Requests \ {r} : request'[s] = request[s]
      BY <2>3, <2>4, Moved
    <2> QED
      BY <1>6, <2>1, <2>5, <2>6, <2>7 DEF InsertCustomer
  <1>7. CASE EnsureDomain(r)
    BY <1>7, <1>00, Stepped DEF EnsureDomain, Domains
  <1>8. CASE SendAccessEmail(r)
    BY <1>8, <1>00, Stepped DEF SendAccessEmail
  <1>9. CASE MarkLeadWon(r)
    BY <1>9, <1>00, Stepped DEF MarkLeadWon, LeadStatus
  <1>10. CASE RecordActivation(r)
    BY <1>10, <1>00, Stepped DEF RecordActivation
  <1>11. CASE UpsertInvoice(r)
    <2> DEFINE e == request[r].event
    <2>1. SnapshotStatus(e.type) \in {"none", "draft", "open", "paid"}
      BY DEF SnapshotStatus
    <2>2. e.invoice \in Invoices
      BY <1>11 DEF UpsertInvoice
    <2>3. invoice' \in [Invoices -> {"none", "draft", "open", "paid"}]
      BY <1>11, <2>1, <2>2 DEF UpsertInvoice
    <2>4. \/ Goto(r, "purchase") /\ e.type = "invoice.paid" /\ Activates(e)
          \/ Goto(r, "respond")
          \/ Goto(r, "status") /\ e.type \notin CheckoutTypes \cup {"invoice.paid"}
      BY <1>11 DEF UpsertInvoice, CheckoutTypes, Activates
    <2> QED
      BY <1>11, <1>00, <2>3, <2>4, Stepped DEF UpsertInvoice
  <1>12. CASE SetCustomerStatus(r)
    <2> DEFINE e == request[r].event
    <2>1. StatusFor(e) \in CustomerStatus
      BY DEF StatusFor, CustomerStatus
    <2>2. \A x \in Billed(e.lead) : x \in Rows /\ customer[x] \in Customers
      BY DEF Billed
    <2>3. \A x \in Billed(e.lead) : [customer[x] EXCEPT !.status = StatusFor(e)] \in Customers
      BY <2>1, <2>2, WithStatus
    <2>4. customer' = [x \in Rows |-> IF x \in Billed(e.lead) /\ ~NoBranch(e)
                                       THEN [customer[x] EXCEPT !.status = StatusFor(e)]
                                       ELSE customer[x]]
      BY <1>12 DEF SetCustomerStatus
    <2> HIDE DEF e
    <2>5. customer' \in [Rows -> Customers \cup {NoCustomer}]
          /\ \A x \in Rows : Exists(x) => Exists(x)'
      BY <2>3, <2>4
    <2>6. \/ Goto(r, "alert") /\ request[r].event.type = "invoice.payment_failed"
          \/ Goto(r, "respond")
      BY <1>12 DEF SetCustomerStatus
    <2> QED
      BY <1>12, <1>00, <2>5, <2>6, Stepped DEF SetCustomerStatus
  <1>13. CASE QueuePaymentFailure(r)
    BY <1>13, <1>00, Stepped DEF QueuePaymentFailure
  <1>14. CASE RecordPurchase(r)
    BY <1>14, <1>00, Stepped DEF RecordPurchase
  <1>15. CASE ClaimInvoiceMail(r)
    BY <1>15, <1>00, Stepped DEF ClaimInvoiceMail
  <1>16. CASE SendInvoiceEmail(r)
    BY <1>16, <1>00, Stepped DEF SendInvoiceEmail
  <1>17. CASE Respond(r)
    BY <1>17, Moved, IdleType DEF Respond, Idle
  <1>18. CASE RefuseDuplicate(r)
    BY <1>18, Moved, IdleType DEF RefuseDuplicate, Withdraw, Idle
  <1> QED
    BY <1>1, <1>2, <1>3, <1>4, <1>5, <1>6, <1>7, <1>8, <1>9, <1>10, <1>11, <1>12, <1>13, <1>14,
       <1>15, <1>16, <1>17, <1>18 DEF HandlerStep

\* A delivery starts a request at the step its event calls for.
LEMMA TypedDelivery ==
    ASSUME Typed, NEW r \in Requests, NEW e \in Events, Claim(r, e),
           faults' \in [Faults -> Nat]
    PROVE  StepOK(r)
  <1> USE EventsAssumption DEF Typed, TypeOK, RequestOK, StepOK, Exists
  <1>1. CASE e \in billingEvents
    BY <1>1 DEF Claim
  <1>2. CASE e \notin billingEvents
    <2> DEFINE q == [Idle EXCEPT !.at = FirstStep(e), !.event = e]
    <2>1. /\ e.type \in CheckoutTypes => FirstStep(e) = "checkout"
          /\ e.type = "invoice.paid" => FirstStep(e) = "lead"
          /\ e.type \in InvoiceTypes \ {"invoice.paid"} => FirstStep(e) = "invoice"
          /\ e.type \in SubscriptionTypes => FirstStep(e) = "status"
      BY DEF FirstStep, CheckoutTypes, InvoiceTypes, SubscriptionTypes
    <2>2. e.type \in CheckoutTypes \cup InvoiceTypes \cup SubscriptionTypes
      BY DEF EventTypes
    <2>3. FirstStep(e) \in {"checkout", "lead", "invoice", "status"}
      BY <2>1, <2>2
    <2>4. q \in RequestType /\ q.at = FirstStep(e) /\ q.event = e
      BY <2>3, IdleType DEF RequestType, Steps
    <2>5. request' = [request EXCEPT ![r] = q]
      BY <1>2 DEF Claim
    <2> HIDE DEF q
    <2>6. /\ request' \in [Requests -> RequestType] /\ request'[r] = q
          /\ \A s \in Requests \ {r} : request'[s] = request[s]
      BY <2>4, <2>5, Moved
    <2>7. RequestOK(r)'
      BY <2>1, <2>2, <2>3, <2>4, <2>6
      DEF RowSteps, KeySteps, PaidSteps, InvoiceSteps, CheckoutTypes, InvoiceTypes,
          SubscriptionTypes
    <2> QED
      BY <1>2, <2>6, <2>7 DEF Claim
  <1> QED BY <1>1, <1>2

\* Counting a fault keeps the counters natural numbers.
LEMMA Spent ==
    ASSUME faults \in [Faults -> Nat], NEW f \in Faults, Spend(f)
    PROVE  faults' \in [Faults -> Nat]
BY DEF Spend

\* A fault clears the request it hits.
LEMMA TypedFault ==
    ASSUME Typed, NEW r \in Requests, FaultStep(r)
    PROVE  StepOK(r)
  <1> USE Moved, IdleType, Spent
      DEF Typed, TypeOK, StepOK, Exists, At, Busy, CanFail, LeadOf, InvoiceOf, Faults
  <1>1. request' = [request EXCEPT ![r] = Idle]
    BY DEF FaultStep, Fail, FailAfterAccessEmail, FailUnclean, Crash, Withdraw
  <1>2. RequestOK(r)'
    BY <1>1 DEF RequestOK, Idle, RowSteps, KeySteps, PaidSteps, InvoiceSteps
  <1>3. CASE Fail(r)
    BY <1>1, <1>2, <1>3 DEF Fail, Withdraw
  <1>4. CASE FailAfterAccessEmail(r)
    BY <1>1, <1>2, <1>4, EventsAssumption
    DEF FailAfterAccessEmail, Withdraw, RequestOK, KeySteps, RequestType
  <1>5. CASE FailUnclean(r)
    BY <1>1, <1>2, <1>5 DEF FailUnclean
  <1>6. CASE Crash(r)
    BY <1>1, <1>2, <1>6 DEF Crash
  <1> QED BY <1>3, <1>4, <1>5, <1>6 DEF FaultStep

\* The cockpit writes a lead status.
LEMMA TypedStage ==
    ASSUME Typed, NEW l \in Leads, NEW stage \in PipelineStages, SetPipelineStage(l, stage)
    PROVE  Typed'
  <1> USE DEF Typed, TypeOK
  <1>1. StatusOfStage(stage, leadStatus[l]) \in LeadStatus
    BY DEF StatusOfStage, LeadStatus
  <1>2. leadStatus' \in [Leads -> LeadStatus]
    BY <1>1 DEF SetPipelineStage
  <1>3. faults' \in [Faults -> Nat]
    BY Spent DEF SetPipelineStage, Faults
  <1> QED BY <1>2, <1>3 DEF SetPipelineStage, RequestOK, Exists

\* Typed is inductive.
LEMMA TypedNext == Typed /\ [Next]_vars => Typed'
  <1> SUFFICES ASSUME Typed, [Next]_vars PROVE Typed'
    OBVIOUS
  <1>1. ASSUME NEW r \in Requests, StepOK(r) PROVE Typed'
    BY <1>1, OthersStayOK DEF StepOK, Typed
  <1>2. CASE StripeStep
    BY <1>2, TypedStripe
  <1>3. ASSUME NEW r \in Requests, Delivery(r) PROVE Typed'
    <2>1. PICK e \in Events : Deliver(r, e) \/ DeliverAfterTimeout(r, e)
      BY <1>3 DEF Delivery
    <2>2. Claim(r, e) /\ faults' \in [Faults -> Nat]
      BY <2>1, Spent DEF Deliver, DeliverAfterTimeout, Faults, Typed, TypeOK
    <2> QED BY <2>2, TypedDelivery, <1>1
  <1>4. ASSUME NEW r \in Requests, HandlerStep(r) PROVE Typed'
    BY <1>4, TypedHandler, <1>1
  <1>5. ASSUME NEW r \in Requests, FaultStep(r) PROVE Typed'
    BY <1>5, TypedFault, <1>1
  <1>6. ASSUME NEW l \in Leads, NEW stage \in PipelineStages, SetPipelineStage(l, stage)
        PROVE  Typed'
    BY <1>6, TypedStage
  <1>7. CASE UNCHANGED vars
    BY <1>7 DEF vars, Typed, TypeOK, RequestOK, Exists
  <1> QED BY <1>2, <1>3, <1>4, <1>5, <1>6, <1>7 DEF Next

\* Every table and every request of the webhook holds what the code can write there.
THEOREM TypeCorrect == Spec => []TypeOK
  <1>1. Typed => TypeOK
    BY DEF Typed
  <1> QED BY <1>1, TypedInit, TypedNext, PTL DEF Spec

-----------------------------------------------------------------------------
(* What a step does to the inbox                                             *)

\* What a step does to the inbox: nothing a delivery can see, ...
Kept(r) == /\ request'[r].event = request[r].event
           /\ Busy(r)' <=> Busy(r)

InboxKept == /\ \A r \in Requests : Kept(r)
             /\ UNCHANGED <<billingEvents, handled>>

Sends(e) == InboxKept /\ e \notin emitted /\ emitted' = emitted \cup {e}

\* ... one request starts on an unclaimed event, ...
Starts(r, e) == /\ ~Busy(r) /\ Busy(r)' /\ request'[r].event = e
                /\ \A s \in Requests \ {r} : Kept(s)
                /\ e \in emitted \ billingEvents
                /\ billingEvents' = billingEvents \cup {e}
                /\ UNCHANGED <<emitted, handled>>

\* ... or one request ends, with its event handled, withdrawn or abandoned.
Ends(r) == /\ Busy(r) /\ ~Busy(r)'
           /\ \A s \in Requests \ {r} : Kept(s)
           /\ UNCHANGED emitted

Finishes(r) == /\ Ends(r)
               /\ handled' = handled \cup {request[r].event}
               /\ UNCHANGED billingEvents

GivesUp(r) == /\ Ends(r)
              /\ billingEvents' \in {billingEvents, billingEvents \ {request[r].event}}
              /\ UNCHANGED handled

InboxStep == \/ InboxKept /\ UNCHANGED emitted
             \/ \E e \in Events : Sends(e)
             \/ \E r \in Requests, e \in Events : Starts(r, e)
             \/ \E r \in Requests : Finishes(r) \/ GivesUp(r)

\* A cleared request ends and keeps the others.
LEMMA ClearedRequest ==
    ASSUME Typed, NEW r \in Requests, Busy(r), request' = [request EXCEPT ![r] = Idle]
    PROVE  /\ ~Busy(r)'
           /\ \A s \in Requests \ {r} : Kept(s)
BY DEF Typed, TypeOK, Busy, Idle, Kept

\* Every step of a handler is a step of the inbox.
LEMMA HandlerInbox ==
    ASSUME Typed, NEW r \in Requests, HandlerStep(r)
    PROVE  InboxStep
  <1> USE DEF Typed, TypeOK, At
  <1>0. ASSUME NEW at \in Steps \ {"idle"}, Busy(r), Goto(r, at),
               UNCHANGED <<billingEvents, handled, emitted>>
        PROVE  InboxStep
    BY <1>0, Stepped DEF InboxStep, InboxKept, Kept, Busy
  <1>00. Steps = {"idle", "checkout", "status", "alert", "lead", "lookup", "update", "insert",
                  "key", "domain", "keymail", "won", "activated", "invoice", "purchase",
                  "claimmail", "invoicemail", "respond"}
    BY DEF Steps
  <1>1. CASE RecordCompletedCheckout(r)
    BY <1>0, <1>00, <1>1 DEF RecordCompletedCheckout, Busy
  <1>2. CASE ReadLead(r)
    BY <1>2 DEF ReadLead, InboxStep, InboxKept, Kept, Busy, RequestType
  <1>3. CASE LookupCustomer(r)
    BY <1>3, <1>0, <1>00 DEF LookupCustomer, InboxStep, InboxKept, Kept, Busy, RequestType
  <1>4. CASE UpdateCustomer(r)
    BY <1>4, <1>0, <1>00 DEF UpdateCustomer, Busy
  <1>5. CASE ReplaceKey(r)
    BY <1>5 DEF ReplaceKey, InboxStep, InboxKept, Kept, Busy, RequestType
  <1>6. CASE InsertCustomer(r)
    BY <1>6 DEF InsertCustomer, InboxStep, InboxKept, Kept, Busy, RequestType
  <1>7. CASE EnsureDomain(r) \/ SendAccessEmail(r) \/ MarkLeadWon(r) \/ RecordActivation(r)
    BY <1>7, <1>0, <1>00 DEF EnsureDomain, SendAccessEmail, MarkLeadWon, RecordActivation, Busy
  <1>8. CASE UpsertInvoice(r) \/ SetCustomerStatus(r) \/ QueuePaymentFailure(r)
    BY <1>8, <1>0, <1>00 DEF UpsertInvoice, SetCustomerStatus, QueuePaymentFailure, Busy
  <1>9. CASE RecordPurchase(r) \/ ClaimInvoiceMail(r) \/ SendInvoiceEmail(r)
    BY <1>9, <1>0, <1>00 DEF RecordPurchase, ClaimInvoiceMail, SendInvoiceEmail, Busy
  <1>10. CASE Respond(r)
    BY <1>10, ClearedRequest DEF Respond, Busy, InboxStep, Finishes, Ends
  <1>11. CASE RefuseDuplicate(r)
    BY <1>11, ClearedRequest DEF RefuseDuplicate, Withdraw, Busy, InboxStep, GivesUp, Ends
  <1> QED
    BY <1>1, <1>2, <1>3, <1>4, <1>5, <1>6, <1>7, <1>8, <1>9, <1>10, <1>11 DEF HandlerStep

\* A delivery starts its event or, when it is claimed, changes nothing.
LEMMA DeliveryInbox ==
    ASSUME Typed, NEW r \in Requests, NEW e \in emitted, Claim(r, e)
    PROVE  InboxStep
  <1> USE DEF Typed, TypeOK
  <1>1. CASE e \in billingEvents
    BY <1>1 DEF Claim, InboxStep, InboxKept, Kept, Busy
  <1>2. CASE e \notin billingEvents
    <2> DEFINE q == [Idle EXCEPT !.at = FirstStep(e), !.event = e]
    <2>1. e.type \in CheckoutTypes \cup InvoiceTypes \cup SubscriptionTypes
      BY EventsAssumption DEF EventTypes
    <2>2. FirstStep(e) # "idle"
      BY <2>1 DEF FirstStep, CheckoutTypes, InvoiceTypes, SubscriptionTypes
    <2>3. request' = [request EXCEPT ![r] = q] /\ q.at # "idle" /\ q.event = e
      BY <1>2, <2>2 DEF Claim, Idle
    <2> HIDE DEF q
    <2>4. ~Busy(r) /\ Busy(r)' /\ request'[r].event = e /\ \A s \in Requests \ {r} : Kept(s)
      BY <1>2, <2>3 DEF Claim, Busy, Kept
    <2> QED
      BY <1>2, <2>4 DEF Claim, InboxStep, Starts
  <1> QED BY <1>1, <1>2

\* Every step is a step of the inbox.
LEMMA NextInbox == Typed /\ [Next]_vars => InboxStep
  <1> SUFFICES ASSUME Typed, [Next]_vars PROVE InboxStep
    OBVIOUS
  <1>1. CASE StripeStep
    BY <1>1 DEF StripeStep, CompleteCheckout, SettleCheckout, FinalizeInvoice, FailFinalization, PayInvoice,
        FailPayment, UpdateSubscription, CancelSubscription, Emits, InboxStep, InboxKept, Kept,
        Busy, Sends
  <1>2. ASSUME NEW r \in Requests, Delivery(r) PROVE InboxStep
    BY <1>2, DeliveryInbox DEF Delivery, Deliver, DeliverAfterTimeout
  <1>3. ASSUME NEW r \in Requests, FaultStep(r) PROVE InboxStep
    BY <1>3, ClearedRequest
    DEF FaultStep, Fail, FailAfterAccessEmail, FailUnclean, Crash, Withdraw, CanFail, At, Busy,
        InboxStep, GivesUp, Ends
  <1>4. CASE UNCHANGED vars \/ \E l \in Leads, stage \in PipelineStages : SetPipelineStage(l, stage)
    BY <1>4 DEF vars, SetPipelineStage, InboxStep, InboxKept, Kept, Busy
  <1> QED BY <1>1, <1>2, <1>3, <1>4, HandlerInbox DEF Next

-----------------------------------------------------------------------------
(* Claims                                                                    *)

Claimed == /\ handled \subseteq billingEvents
           /\ billingEvents \subseteq emitted
           /\ \A r \in Requests : Busy(r) => request[r].event \in billingEvents \ handled
           /\ OneHandlerPerEvent

\* The claims stay exclusive.
LEMMA ClaimedNext == Claimed /\ InboxStep => Claimed'
  <1> SUFFICES ASSUME Claimed, InboxStep PROVE Claimed'
    OBVIOUS
  <1> USE DEF Claimed, OneHandlerPerEvent, Kept
  <1>1. CASE InboxKept /\ UNCHANGED emitted
    BY <1>1 DEF InboxKept
  <1>2. ASSUME NEW e \in Events, Sends(e) PROVE Claimed'
    BY <1>2 DEF Sends, InboxKept
  <1>3. ASSUME NEW r \in Requests, NEW e \in Events, Starts(r, e) PROVE Claimed'
    BY <1>3 DEF Starts
  <1>4. ASSUME NEW r \in Requests, Finishes(r) PROVE Claimed'
    BY <1>4 DEF Finishes, Ends
  <1>5. ASSUME NEW r \in Requests, GivesUp(r) PROVE Claimed'
    BY <1>5 DEF GivesUp, Ends
  <1> QED BY <1>1, <1>2, <1>3, <1>4, <1>5 DEF InboxStep

\* Two requests never work on the same event.
THEOREM EventsAreHandledByOneRequest == Spec => []OneHandlerPerEvent
  <1>1. Init => Claimed
    BY DEF Init, StartWith, Claimed, OneHandlerPerEvent, Busy, Idle
  <1>2. Claimed => OneHandlerPerEvent
    BY DEF Claimed
  <1> QED BY <1>1, <1>2, TypedInit, TypedNext, NextInbox, ClaimedNext, PTL DEF Spec

-----------------------------------------------------------------------------
(* The refinement of WebhookInbox: the stage of each event, step by step.    *)

InboxInv == Typed /\ Claimed

\* A step that moves the stage of one event along is one of WebhookInbox.
LEMMA StageStep ==
    ASSUME NEW e \in Events,
           \A d \in Events \ {e} : StageOf(d)' = StageOf(d),
           \/ StageOf(e) = "unsent" /\ StageOf(e)' = "pending"
           \/ StageOf(e) = "pending" /\ StageOf(e)' = "working"
           \/ StageOf(e) = "working" /\ StageOf(e)' \in {"handled", "pending", "dropped"}
    PROVE  Inbox!Next
  <1> DEFINE stage == [d \in Events |-> StageOf(d)]
  <1>1. stage[e] = StageOf(e) /\ stage' = [stage EXCEPT ![e] = StageOf(e)']
    OBVIOUS
  <1> QED
    BY <1>1 DEF Inbox!Next, Inbox!Move, Inbox!Send, Inbox!Start, Inbox!Finish, Inbox!Retry,
                Inbox!Drop

\* Every step moves the stage of at most one event.
LEMMA InboxRefined ==
    ASSUME InboxInv, InboxStep
    PROVE  [Inbox!Next]_([e \in Events |-> StageOf(e)])
  <1> USE DEF InboxInv, Claimed, OneHandlerPerEvent, Kept, StageOf, Working
  <1>1. CASE InboxKept /\ UNCHANGED emitted
    BY <1>1 DEF InboxKept
  <1>2. ASSUME NEW e \in Events, Sends(e) PROVE Inbox!Next
    <2>1. StageOf(e) = "unsent" /\ StageOf(e)' = "pending"
      BY <1>2 DEF Sends, InboxKept
    <2>2. \A d \in Events \ {e} : StageOf(d)' = StageOf(d)
      BY <1>2 DEF Sends, InboxKept
    <2> QED BY <2>1, <2>2, StageStep
  <1>3. ASSUME NEW r \in Requests, NEW e \in Events, Starts(r, e) PROVE Inbox!Next
    <2>1. StageOf(e) = "pending" /\ StageOf(e)' = "working"
      BY <1>3 DEF Starts
    <2>2. \A d \in Events \ {e} : StageOf(d)' = StageOf(d)
      BY <1>3 DEF Starts
    <2> QED BY <2>1, <2>2, StageStep
  <1>4. ASSUME NEW r \in Requests, Finishes(r) \/ GivesUp(r) PROVE Inbox!Next
    <2>0. PICK e \in Events : e = request[r].event
      BY <1>4 DEF Finishes, GivesUp, Ends, Typed, TypeOK
    <2>1. StageOf(e) = "working"
      BY <1>4, <2>0 DEF Finishes, GivesUp, Ends
    <2>2. StageOf(e)' \in {"handled", "pending", "dropped"}
      BY <1>4, <2>0 DEF Finishes, GivesUp, Ends
    <2>3. \A d \in Events \ {e} : StageOf(d)' = StageOf(d)
      BY <1>4, <2>0 DEF Finishes, GivesUp, Ends
    <2> QED BY <2>1, <2>2, <2>3, StageStep
  <1> QED BY <1>1, <1>2, <1>3, <1>4 DEF InboxStep

\* Types and claims are invariants together.
LEMMA InboxInvariant == Spec => []InboxInv
  <1>1. Init => InboxInv
    BY TypedInit DEF Init, StartWith, InboxInv, Claimed, OneHandlerPerEvent, Busy, Idle
  <1>2. InboxInv /\ [Next]_vars => InboxInv'
    BY TypedNext, NextInbox, ClaimedNext DEF InboxInv
  <1> QED BY <1>1, <1>2, PTL DEF Spec

\* The webhook implements the abstract inbox.
THEOREM WebhookImplementsInbox == Spec => ImplementsInbox
  <1>1. Init => Inbox!Init
    BY DEF Init, StartWith, Inbox!Init, StageOf
  <1>2. InboxInv /\ [Next]_vars => [Inbox!Next]_([e \in Events |-> StageOf(e)])
    BY InboxRefined, NextInbox DEF InboxInv
  <1> QED BY <1>1, <1>2, InboxInvariant, PTL DEF Spec, ImplementsInbox, Inbox!Spec

-----------------------------------------------------------------------------
(* Payments: what Stripe reported stays true, so access follows money.       *)

InvoicePaid(i) == stripeInvoice[i] = "paid"

Collected == /\ \A e \in emitted : e.type = "invoice.paid" => InvoicePaid(e.invoice)
             /\ AccessOnlyAfterPayment

\* Only Stripe changes Stripe's state, and it changes nothing else.
LEMMA StripeFrame ==
    ASSUME [Next]_vars
    PROVE  /\ UNCHANGED stripeVars \/ StripeStep
           /\ StripeStep => UNCHANGED <<inboxVars, leadVars, customerVars, invoiceVars, mailVars,
                                       outbox, request, faults>>
  <1>1. ASSUME NEW r \in Requests, Delivery(r) \/ HandlerStep(r) \/ FaultStep(r)
        PROVE  UNCHANGED stripeVars
    BY <1>1
    DEF Delivery, Deliver, DeliverAfterTimeout, Claim, FaultStep, Fail, FailAfterAccessEmail,
        FailUnclean, Crash, HandlerStep, RecordCompletedCheckout, ReadLead, LookupCustomer,
        UpdateCustomer, ReplaceKey, InsertCustomer, EnsureDomain, SendAccessEmail, MarkLeadWon,
        RecordActivation, UpsertInvoice, SetCustomerStatus, QueuePaymentFailure, RecordPurchase,
        ClaimInvoiceMail, SendInvoiceEmail, Respond, RefuseDuplicate
  <1>2. StripeStep => UNCHANGED <<inboxVars, leadVars, customerVars, invoiceVars, mailVars,
                                 outbox, request, faults>>
    BY DEF StripeStep, CompleteCheckout, SettleCheckout, FinalizeInvoice, FailFinalization, PayInvoice,
        FailPayment, UpdateSubscription, CancelSubscription, Emits
  <1> QED BY <1>1, <1>2 DEF Next, SetPipelineStage, vars

\* Four statements write widget_customers.
LEMMA CustomerFrame ==
    ASSUME [Next]_vars
    PROVE  \/ UNCHANGED customer
           \/ \E r \in Requests : \/ UpdateCustomer(r) \/ ReplaceKey(r)
                                  \/ InsertCustomer(r) \/ SetCustomerStatus(r)
  <1>1. ASSUME NEW r \in Requests, Delivery(r) \/ FaultStep(r)
        PROVE  UNCHANGED customer
    BY <1>1
    DEF Delivery, Deliver, DeliverAfterTimeout, Claim, FaultStep, Fail, FailAfterAccessEmail,
        FailUnclean, Crash
  <1>2. ASSUME NEW r \in Requests, HandlerStep(r)
        PROVE  \/ UNCHANGED customer
               \/ UpdateCustomer(r) \/ ReplaceKey(r) \/ InsertCustomer(r) \/ SetCustomerStatus(r)
    BY <1>2
    DEF HandlerStep, RecordCompletedCheckout, ReadLead, LookupCustomer, EnsureDomain,
        SendAccessEmail, MarkLeadWon, RecordActivation, UpsertInvoice, QueuePaymentFailure,
        RecordPurchase, ClaimInvoiceMail, SendInvoiceEmail, Respond, RefuseDuplicate
  <1> QED BY <1>1, <1>2, StripeFrame DEF Next, SetPipelineStage, vars

\* What the four statements that write widget_customers leave in the row they write.
LEMMA UpdateEffect ==
    ASSUME Typed, NEW r \in Requests, UpdateCustomer(r)
    PROVE  LET x == request[r].row
           IN  /\ request[r].at = "update" /\ x \in Rows /\ Exists(x)
               /\ customer'[x] # NoCustomer
               /\ customer'[x].sub = LeadOf(r) /\ customer'[x].status = "active"
               /\ customer'[x].email = customer[x].email
               /\ \A y \in Rows \ {x} : customer'[y] = customer[y]
  <1> DEFINE l == LeadOf(r)
             x == request[r].row
             c == [customer[x] EXCEPT !.status = "active", !.plan = LeadPlan[l],
                                      !.domain = LeadDomain[l], !.sub = l]
  <1>1. /\ request[r].at = "update" /\ x \in Rows /\ l \in Leads /\ customer[x] \in Customers
        /\ customer' = [customer EXCEPT ![x] = c]
    BY EventsAssumption
    DEF UpdateCustomer, At, LeadOf, Typed, TypeOK, RequestOK, RowSteps, Exists
  <1>2. /\ c \in Customers
        /\ c.sub = l /\ c.status = "active" /\ c.email = customer[x].email
    BY <1>1 DEF Customers, CustomerStatus, Domains, Plans
  <1> HIDE DEF c
  <1> QED
    BY <1>1, <1>2, NullsAssumption DEF Typed, TypeOK, Exists

\* An inserted row is billed for the lead and carries its address.
LEMMA InsertEffect ==
    ASSUME Typed, NEW r \in Requests, InsertCustomer(r)
    PROVE  \E x \in Rows :
               /\ request[r].at = "insert" /\ ~Exists(x) /\ customer'[x] # NoCustomer
               /\ request'[r].row = x
               /\ customer'[x].sub = LeadOf(r) /\ customer'[x].status = "active"
               /\ customer'[x].email = LeadEmail[LeadOf(r)]
               /\ ~EmailTaken(LeadOf(r))
               /\ \A y \in Rows \ {x} : customer'[y] = customer[y]
  <1> DEFINE l == LeadOf(r)
             c == [email |-> LeadEmail[l], domain |-> LeadDomain[l], plan |-> LeadPlan[l],
                   limit |-> LeadPlan[l], sub |-> l, status |-> "active", key |-> NewKey]
  <1>1. /\ request[r].at = "insert" /\ ~EmailTaken(l) /\ l \in Leads
        /\ NewKey \in Keys /\ NewRow \in Rows /\ ~Exists(NewRow)
        /\ customer' = [customer EXCEPT ![NewRow] = c] /\ request'[r].row = NewRow
    BY EventsAssumption, NewKeyIsFresh, NewRowIsFree
    DEF InsertCustomer, At, LeadOf, Typed, TypeOK, RequestOK, RequestType
  <1>2. /\ c \in Customers
        /\ c.sub = l /\ c.status = "active" /\ c.email = LeadEmail[l]
    BY <1>1 DEF Customers, Emails, Domains, Plans, CustomerStatus
  <1> HIDE DEF c
  <1>3. /\ customer'[NewRow] = c /\ c # NoCustomer
        /\ \A y \in Rows \ {NewRow} : customer'[y] = customer[y]
    BY <1>1, <1>2, NullsAssumption DEF Typed, TypeOK
  <1> QED BY <1>1, <1>2, <1>3

\* A replaced key leaves billing, address and status alone.
LEMMA KeyEffect ==
    ASSUME Typed, NEW r \in Requests, ReplaceKey(r)
    PROVE  \A x \in Rows : /\ Exists(x)' <=> Exists(x)
                           /\ Exists(x) => /\ customer'[x].sub = customer[x].sub
                                           /\ customer'[x].email = customer[x].email
                                           /\ customer'[x].status = customer[x].status
  <1> DEFINE x == request[r].row
             c == [customer[x] EXCEPT !.key = NewKey]
  <1>1. /\ x \in Rows /\ customer[x] \in Customers /\ NewKey \in Keys
        /\ customer' = [customer EXCEPT ![x] = c]
    BY NewKeyIsFresh DEF ReplaceKey, At, Typed, TypeOK, RequestOK, RowSteps, Exists
  <1>2. /\ c \in Customers /\ c.sub = customer[x].sub /\ c.email = customer[x].email
        /\ c.status = customer[x].status
    BY <1>1 DEF Customers
  <1> HIDE DEF c
  <1> QED BY <1>1, <1>2, NullsAssumption DEF Typed, TypeOK, Exists

\* A status update touches rows billed through the event's subscription.
LEMMA StatusEffect ==
    ASSUME Typed, NEW r \in Requests, SetCustomerStatus(r)
    PROVE  \A x \in Rows :
               /\ Exists(x)' <=> Exists(x)
               /\ Exists(x) => /\ customer'[x].sub = customer[x].sub
                               /\ customer'[x].email = customer[x].email
                               /\ \/ customer'[x].status = customer[x].status
                                  \/ /\ customer'[x].status = StatusFor(request[r].event)
                                     /\ customer[x].sub = LeadOf(r)
  <1> TAKE x \in Rows
  <1> DEFINE e == request[r].event
             c == [customer[x] EXCEPT !.status = StatusFor(e)]
  <1>1. customer'[x] = IF x \in Billed(e.lead) /\ ~NoBranch(e) THEN c ELSE customer[x]
    BY DEF SetCustomerStatus
  <1>2. CASE x \in Billed(e.lead) /\ ~NoBranch(e)
    <2>1. customer[x] \in Customers /\ customer[x].sub = LeadOf(r) /\ Exists(x)
      BY <1>2 DEF Billed, Typed, TypeOK, Exists, LeadOf
    <2>2. /\ c \in Customers /\ c.sub = customer[x].sub /\ c.email = customer[x].email
          /\ c.status = StatusFor(e)
      BY <2>1, WithStatus DEF Customers, StatusFor, CustomerStatus
    <2> HIDE DEF c
    <2> QED BY <1>1, <1>2, <2>1, <2>2, NullsAssumption DEF Exists
  <1>3. CASE ~(x \in Billed(e.lead) /\ ~NoBranch(e))
    BY <1>1, <1>3 DEF Exists
  <1> QED BY <1>2, <1>3

\* A collected invoice stays collected.
LEMMA PaidStaysPaid ==
    ASSUME Typed, [Next]_vars, NEW i \in Invoices, InvoicePaid(i)
    PROVE  InvoicePaid(i)'
  <1> USE DEF InvoicePaid, Typed, TypeOK
  <1>1. CASE StripeStep
    BY <1>1, EventsAssumption
    DEF StripeStep, CompleteCheckout, SettleCheckout, FinalizeInvoice, FailFinalization, PayInvoice,
        FailPayment, UpdateSubscription, CancelSubscription, Emits, InvoiceTypes
  <1> QED BY <1>1, StripeFrame

\* The invoice behind a request that works on a payment is collected.
LEMMA WorksOnPaidInvoice ==
    ASSUME InboxInv, Collected, NEW r \in Requests, request[r].at \in PaidSteps
    PROVE  LET e == request[r].event
           IN  e \in Events /\ e.invoice \in Invoices /\ InvoiceLead[e.invoice] = e.lead
                 /\ InvoicePaid(e.invoice)
BY EventsAssumption DEF InboxInv, Typed, TypeOK, RequestOK, Claimed, Collected, Busy, PaidSteps,
   RowSteps, InvoiceTypes

\* Access stays behind payment.
LEMMA CollectedNext ==
    ASSUME InboxInv, Collected, [Next]_vars, InboxInv'
    PROVE  Collected'
  <1> USE EventsAssumption DEF InboxInv, Typed, TypeOK
  <1>1. \A e \in emitted' : e.type = "invoice.paid" => InvoicePaid(e.invoice)'
    <2>1. ASSUME NEW e \in emitted, e.type = "invoice.paid" PROVE InvoicePaid(e.invoice)'
      BY <2>1, PaidStaysPaid DEF Collected, InvoiceTypes
    <2>2. ASSUME NEW e \in emitted' \ emitted, e.type = "invoice.paid" PROVE PayInvoice(e)
      BY <2>2, StripeFrame
      DEF StripeStep, CompleteCheckout, SettleCheckout, FinalizeInvoice, FailFinalization, PayInvoice,
          FailPayment, UpdateSubscription, CancelSubscription, Emits
    <2> QED BY <2>1, <2>2 DEF PayInvoice, InvoicePaid, InvoiceTypes
  <1>2. ASSUME NEW x \in Rows, Exists(x)'
        PROVE  \E i \in Invoices : InvoiceLead[i] = customer'[x].sub /\ InvoicePaid(i)
    <2> USE DEF Exists
    <2>1. CASE Exists(x) /\ customer'[x].sub = customer[x].sub
      BY <2>1 DEF Collected, AccessOnlyAfterPayment, InvoicePaid
    <2>2. CASE UNCHANGED customer
      BY <1>2, <2>1, <2>2
    <2>3. ASSUME NEW r \in Requests, UpdateCustomer(r) \/ InsertCustomer(r),
                 customer'[x] # customer[x]
          PROVE  \E i \in Invoices : InvoiceLead[i] = customer'[x].sub /\ InvoicePaid(i)
      <3> DEFINE e == request[r].event
      <3>1. e \in Events /\ e.invoice \in Invoices /\ InvoiceLead[e.invoice] = e.lead
              /\ InvoicePaid(e.invoice)
        BY <2>3, WorksOnPaidInvoice DEF UpdateCustomer, InsertCustomer, At, PaidSteps, RowSteps
      <3>2. customer'[x].sub = e.lead
        BY <2>3, UpdateEffect, InsertEffect DEF LeadOf
      <3> QED BY <3>1, <3>2
    <2>4. ASSUME NEW r \in Requests, ReplaceKey(r) \/ SetCustomerStatus(r)
          PROVE  Exists(x) /\ customer'[x].sub = customer[x].sub
      BY <1>2, <2>4, KeyEffect, StatusEffect
    <2> QED BY <1>2, <2>1, <2>2, <2>3, <2>4, CustomerFrame
  <1> QED BY <1>1, <1>2, PaidStaysPaid DEF Collected, AccessOnlyAfterPayment, InvoicePaid

\* Nobody gets a customer row, and a key, without a collected invoice.
THEOREM AccessFollowsPayment == Spec => []AccessOnlyAfterPayment
  <1>1. Init => Collected
    BY DEF Init, StartWith, Collected, AccessOnlyAfterPayment, Exists
  <1>2. InboxInv /\ InboxInv' /\ Collected /\ [Next]_vars => Collected'
    BY CollectedNext
  <1>3. Collected => AccessOnlyAfterPayment
    BY DEF Collected
  <1> QED BY <1>1, <1>2, <1>3, InboxInvariant, PTL DEF Spec

-----------------------------------------------------------------------------
(* Cancellations                                                             *)

Ended(l) == subscription[l] = "canceled"

Canceled == /\ \A e \in emitted : e.type = "customer.subscription.deleted" => Ended(e.lead)
            /\ DeactivatedByItsOwnSubscription

\* A canceled subscription stays canceled.
LEMMA EndedStaysEnded ==
    ASSUME Typed, [Next]_vars, NEW l \in Leads, Ended(l)
    PROVE  Ended(l)'
  <1>1. CASE StripeStep
    BY <1>1, EventsAssumption
    DEF StripeStep, CompleteCheckout, SettleCheckout, FinalizeInvoice, FailFinalization, PayInvoice,
        FailPayment, UpdateSubscription, CancelSubscription, Ended, Typed, TypeOK
  <1> QED BY <1>1, StripeFrame DEF Ended

\* A row is canceled only with its own subscription.
LEMMA CanceledNext ==
    ASSUME InboxInv, Canceled, [Next]_vars
    PROVE  Canceled'
  <1> USE EventsAssumption DEF InboxInv, Typed, TypeOK
  <1>1. \A e \in emitted' : e.type = "customer.subscription.deleted" => Ended(e.lead)'
    <2>1. ASSUME NEW e \in emitted, e.type = "customer.subscription.deleted"
          PROVE  Ended(e.lead)'
      BY <2>1, EndedStaysEnded DEF Canceled
    <2>2. ASSUME NEW e \in emitted' \ emitted, e.type = "customer.subscription.deleted"
          PROVE  CancelSubscription(e) /\ e \in Events
      BY <2>2, StripeFrame
      DEF StripeStep, CompleteCheckout, SettleCheckout, FinalizeInvoice, FailFinalization, PayInvoice,
          FailPayment, UpdateSubscription, CancelSubscription, Emits
    <2> QED BY <2>1, <2>2 DEF CancelSubscription, Ended
  <1>2. ASSUME NEW x \in Rows, Exists(x)', customer'[x].status = "canceled"
        PROVE  subscription'[customer'[x].sub] = "canceled"
    <2>1. CASE Exists(x) /\ customer[x].status = "canceled" /\ customer'[x].sub = customer[x].sub
      <3>1. customer[x].sub \in Leads /\ Ended(customer[x].sub)
        BY <2>1 DEF Canceled, DeactivatedByItsOwnSubscription, Ended, Exists, Customers
      <3> QED BY <2>1, <3>1, EndedStaysEnded DEF Ended
    <2>2. CASE UNCHANGED customer
      BY <1>2, <2>1, <2>2 DEF Exists
    <2>3. ASSUME NEW r \in Requests, UpdateCustomer(r) \/ InsertCustomer(r)
          PROVE  Exists(x) /\ UNCHANGED customer[x]
      BY <1>2, <2>3, UpdateEffect, InsertEffect DEF Exists
    <2>4. ASSUME NEW r \in Requests, ReplaceKey(r)
          PROVE  Exists(x) /\ customer[x].status = "canceled" /\ customer'[x].sub = customer[x].sub
      BY <1>2, <2>4, KeyEffect
    <2>5. ASSUME NEW r \in Requests, SetCustomerStatus(r), customer[x].status # "canceled"
          PROVE  subscription'[customer'[x].sub] = "canceled"
      <3> DEFINE e == request[r].event
      <3>1. customer'[x].sub = e.lead /\ StatusFor(e) = "canceled"
        BY <1>2, <2>5, StatusEffect DEF LeadOf
      <3>2. e \in emitted /\ e \in Events
        BY <2>5 DEF SetCustomerStatus, At, Claimed, Busy
      <3>3. e.type = "customer.subscription.deleted"
        BY <3>1 DEF StatusFor
      <3>4. UNCHANGED subscription
        BY <2>5 DEF SetCustomerStatus
      <3> QED BY <3>1, <3>2, <3>3, <3>4 DEF Canceled, Ended
    <2> QED BY <1>2, <2>1, <2>2, <2>3, <2>4, <2>5, StatusEffect, CustomerFrame
  <1> QED BY <1>1, <1>2 DEF Canceled, DeactivatedByItsOwnSubscription, Ended

\* A row is canceled only through the subscription it is billed by.
THEOREM CancellationIsItsOwn == Spec => []DeactivatedByItsOwnSubscription
  <1>1. Init => Canceled
    BY DEF Init, StartWith, Canceled, DeactivatedByItsOwnSubscription, Exists
  <1>2. InboxInv /\ Canceled /\ [Next]_vars => Canceled'
    BY CanceledNext
  <1>3. Canceled => DeactivatedByItsOwnSubscription
    BY DEF Canceled
  <1> QED BY <1>1, <1>2, <1>3, InboxInvariant, PTL DEF Spec

-----------------------------------------------------------------------------
(* Rows: one per address, and the address is that of the lead it is billed for. *)

\* Where a request stands after a step: it stays, ends, starts, or took a step of its own.
LEMMA RequestFrame ==
    ASSUME Typed, [Next]_vars, NEW s \in Requests
    PROVE  \/ request'[s] = request[s]
           \/ request'[s].at \in {"idle", "checkout", "lead", "status"}
           \/ request'[s].at = "invoice" /\ request'[s].event.type # "invoice.paid"
           \/ HandlerStep(s)
  <1> DEFINE P == \/ request'[s] = request[s]
                  \/ request'[s].at \in {"idle", "checkout", "lead", "status"}
                  \/ request'[s].at = "invoice" /\ request'[s].event.type # "invoice.paid"
                  \/ HandlerStep(s)
  <1>1. ASSUME NEW r \in Requests, Delivery(r) PROVE P
    <2>1. PICK e \in Events : Claim(r, e)
      BY <1>1 DEF Delivery, Deliver, DeliverAfterTimeout
    <2> DEFINE q == [Idle EXCEPT !.at = FirstStep(e), !.event = e]
    <2>2. UNCHANGED request \/ request' = [request EXCEPT ![r] = q]
      BY <2>1 DEF Claim
    <2>3. \/ q.at \in {"checkout", "lead", "status"}
          \/ q.at = "invoice" /\ q.event.type # "invoice.paid"
      BY EventsAssumption DEF Idle, FirstStep, EventTypes, CheckoutTypes, InvoiceTypes,
         SubscriptionTypes
    <2> HIDE DEF q
    <2> QED BY <2>2, <2>3 DEF Typed, TypeOK
  <1>2. ASSUME NEW r \in Requests, HandlerStep(r) PROVE P
    BY <1>2, TypedHandler DEF StepOK
  <1>3. ASSUME NEW r \in Requests, FaultStep(r) PROVE P
    BY <1>3 DEF FaultStep, Fail, FailAfterAccessEmail, FailUnclean, Crash, Withdraw, Idle,
       Typed, TypeOK
  <1> QED BY <1>1, <1>2, <1>3, StripeFrame DEF Next, SetPipelineStage, vars

RowKnown(r) == customer[request[r].row].email = LeadEmail[LeadOf(r)]

RowsOfLeads ==
    /\ \A x \in Rows : Exists(x) => customer[x].email = LeadEmail[customer[x].sub]
    /\ \A x, y \in Rows : Exists(x) /\ Exists(y) /\ customer[x].email = customer[y].email => x = y
    /\ \A r \in Requests : request[r].at \in RowSteps => RowKnown(r)

\* A row keeps its address.
LEMMA EmailsStay ==
    ASSUME Typed, [Next]_vars, NEW x \in Rows, Exists(x)
    PROVE  customer'[x] # NoCustomer /\ customer'[x].email = customer[x].email
BY CustomerFrame, UpdateEffect, InsertEffect, KeyEffect, StatusEffect DEF Exists

\* A request reaches the steps that write its row by lookup or by insertion.
LEMMA RowStepSource ==
    ASSUME Typed, [Next]_vars, NEW r \in Requests, request'[r].at \in RowSteps
    PROVE  /\ request'[r].event = request[r].event
           /\ \/ /\ request[r].at \in RowSteps
                 /\ request'[r].row = request[r].row
              \/ request'[r].row \in Matching(LeadOf(r)) /\ UNCHANGED customer
              \/ InsertCustomer(r)
  <1> USE DEF Typed, TypeOK, RowSteps, At
  <1>1. CASE request'[r] = request[r]
    BY <1>1
  <1>2. CASE HandlerStep(r)
    <2>0. request[r] \in RequestType
      OBVIOUS
    <2>1. CASE LookupCustomer(r)
      BY <2>1 DEF LookupCustomer, Goto, RequestType
    <2>2. CASE InsertCustomer(r)
      BY <2>2, <2>0 DEF InsertCustomer, RequestType
    <2>3. CASE ReplaceKey(r)
      BY <2>3, <2>0 DEF ReplaceKey, RequestType
    <2>4. CASE UpdateCustomer(r) \/ EnsureDomain(r) \/ SendAccessEmail(r) \/ MarkLeadWon(r)
                \/ RecordActivation(r)
      BY <2>4 DEF UpdateCustomer, EnsureDomain, SendAccessEmail, MarkLeadWon, RecordActivation,
         Goto, RequestType
    <2> QED
      BY <1>2, <2>1, <2>2, <2>3, <2>4
      DEF HandlerStep, RecordCompletedCheckout, ReadLead, UpsertInvoice, SetCustomerStatus,
          QueuePaymentFailure, RecordPurchase, ClaimInvoiceMail, SendInvoiceEmail, Respond,
          RefuseDuplicate, Withdraw, Goto, Idle, RequestType
  <1> QED BY <1>1, <1>2, RequestFrame

\* Addresses stay unique and agree with the billed lead.
LEMMA RowsNext ==
    ASSUME Typed, Typed', RowsOfLeads, [Next]_vars
    PROVE  RowsOfLeads'
  <1> USE DEF RowsOfLeads
  <1>1. ASSUME NEW r \in Requests, request'[r].at \in RowSteps PROVE RowKnown(r)'
    <2>1. CASE request[r].at \in RowSteps /\ request'[r].row = request[r].row
      BY <1>1, <2>1, RowStepSource, EmailsStay DEF RowKnown, LeadOf, Typed, RequestOK
    <2>2. CASE request'[r].row \in Matching(LeadOf(r)) /\ UNCHANGED customer
      BY <1>1, <2>2, RowStepSource DEF RowKnown, LeadOf, Matching
    <2>3. CASE InsertCustomer(r)
      BY <1>1, <2>3, RowStepSource, InsertEffect DEF RowKnown, LeadOf
    <2> QED BY <1>1, <2>1, <2>2, <2>3, RowStepSource
  <1>2. CASE UNCHANGED customer
    BY <1>1, <1>2 DEF Exists
  <1>3. ASSUME NEW r \in Requests, UpdateCustomer(r) PROVE RowsOfLeads'
    BY <1>1, <1>3, UpdateEffect DEF Exists, RowKnown, RowSteps
  <1>4. ASSUME NEW r \in Requests, InsertCustomer(r) PROVE RowsOfLeads'
    BY <1>1, <1>4, InsertEffect DEF Exists, EmailTaken
  <1>5. ASSUME NEW r \in Requests, ReplaceKey(r) PROVE RowsOfLeads'
    BY <1>1, <1>5, KeyEffect DEF Exists
  <1>6. ASSUME NEW r \in Requests, SetCustomerStatus(r) PROVE RowsOfLeads'
    BY <1>1, <1>6, StatusEffect DEF Exists
  <1> QED BY <1>2, <1>3, <1>4, <1>5, <1>6, CustomerFrame

\* Rows, claims and types are invariants together.
LEMMA RowsInvariant == Spec => [](InboxInv /\ RowsOfLeads)
  <1>1. Init => RowsOfLeads
    BY DEF Init, StartWith, RowsOfLeads, Exists, RowSteps, Idle
  <1>2. InboxInv /\ InboxInv' /\ RowsOfLeads /\ [Next]_vars => RowsOfLeads'
    BY RowsNext DEF InboxInv
  <1> QED BY <1>1, <1>2, InboxInvariant, PTL DEF Spec

\* The lookup without an order finds at most one row.
THEOREM OneRowPerLead == Spec => []LookupIsUnambiguous
  <1>1. InboxInv /\ RowsOfLeads => LookupIsUnambiguous
    BY DEF RowsOfLeads, LookupIsUnambiguous, Matching
  <1> QED BY <1>1, RowsInvariant, PTL

-----------------------------------------------------------------------------
(* Invoice mails: the flag in widget_invoices is a lock and a memory.        *)

Mailing == /\ \A r \in Requests : At(r, "invoicemail") =>
                  invoiceSent[InvoiceOf(r)] /\ invoiceMails[InvoiceOf(r)] = 0
           /\ \A r, s \in Requests :
                  /\ At(r, "invoicemail") /\ At(s, "invoicemail")
                  /\ InvoiceOf(r) = InvoiceOf(s)
                  => r = s
           /\ \A i \in Invoices : ~invoiceSent[i] => invoiceMails[i] = 0
           /\ InvoiceMailedAtMostOnce

\* A request is about to mail an invoice because it just took the flag.
LEMMA MailStepSource ==
    ASSUME Typed, [Next]_vars, NEW r \in Requests, At(r, "invoicemail")'
    PROVE  \/ request'[r] = request[r]
           \/ ClaimInvoiceMail(r) /\ Unmailed(InvoiceOf(r)) /\ InvoiceOf(r)' = InvoiceOf(r)
  <1> USE DEF Typed, TypeOK, At, InvoiceOf
  <1>1. CASE HandlerStep(r)
    BY <1>1
    DEF HandlerStep, RecordCompletedCheckout, ReadLead, LookupCustomer, UpdateCustomer,
        ReplaceKey, InsertCustomer, EnsureDomain, SendAccessEmail, MarkLeadWon,
        RecordActivation, UpsertInvoice, SetCustomerStatus, QueuePaymentFailure, RecordPurchase,
        ClaimInvoiceMail, SendInvoiceEmail, Respond, RefuseDuplicate, Withdraw, Goto, Idle,
        RequestType
  <1> QED BY <1>1, RequestFrame

MailGivenBack(r) == /\ request[r].at # "idle" /\ request'[r].at = "idle"
                    /\ UNCHANGED invoiceMails
                    /\ \/ UNCHANGED invoiceSent
                       \/ /\ At(r, "invoicemail")
                          /\ invoiceSent' = [invoiceSent EXCEPT ![InvoiceOf(r)] = FALSE]

\* What writes the flag and counts the mails.
LEMMA MailFrame ==
    ASSUME Typed, [Next]_vars
    PROVE  \/ UNCHANGED <<invoiceSent, invoiceMails>>
           \/ \E r \in Requests : ClaimInvoiceMail(r) \/ SendInvoiceEmail(r) \/ MailGivenBack(r)
  <1> USE DEF Typed, TypeOK
  <1>1. ASSUME NEW r \in Requests, FaultStep(r) \/ RefuseDuplicate(r)
        PROVE  UNCHANGED <<invoiceSent, invoiceMails>> \/ MailGivenBack(r)
    BY <1>1
    DEF FaultStep, Fail, FailAfterAccessEmail, FailUnclean, Crash, RefuseDuplicate, Withdraw,
        CanFail, Busy, Idle, At, MailGivenBack
  <1>2. ASSUME NEW r \in Requests, Delivery(r)
        PROVE  UNCHANGED <<invoiceSent, invoiceMails>>
    BY <1>2 DEF Delivery, Deliver, DeliverAfterTimeout, Claim
  <1>3. ASSUME NEW r \in Requests, HandlerStep(r)
        PROVE  \/ UNCHANGED <<invoiceSent, invoiceMails>>
               \/ ClaimInvoiceMail(r) \/ SendInvoiceEmail(r) \/ RefuseDuplicate(r)
    BY <1>3
    DEF HandlerStep, RecordCompletedCheckout, ReadLead, LookupCustomer, UpdateCustomer,
        ReplaceKey, InsertCustomer, EnsureDomain, SendAccessEmail, MarkLeadWon,
        RecordActivation, UpsertInvoice, SetCustomerStatus, QueuePaymentFailure, RecordPurchase,
        Respond
  <1> QED BY <1>1, <1>2, <1>3, StripeFrame DEF Next, SetPipelineStage, vars

\* The flag stays exclusive and remembered.
LEMMA MailingNext ==
    ASSUME Typed, Mailing, [Next]_vars
    PROVE  Mailing'
  <1> USE DEF Mailing, InvoiceMailedAtMostOnce, Typed, TypeOK
  <1>0. ASSUME NEW r \in Requests, At(r, "invoicemail") \/ At(r, "claimmail")
        PROVE  InvoiceOf(r) \in Invoices
    BY <1>0, EventsAssumption DEF RequestOK, At, InvoiceOf, InvoiceSteps, PaidSteps, InvoiceTypes
  <1>1. CASE UNCHANGED <<invoiceSent, invoiceMails>>
    <2>1. ASSUME NEW r \in Requests, At(r, "invoicemail")' PROVE request'[r] = request[r]
      BY <1>0, <1>1, <2>1, MailStepSource DEF ClaimInvoiceMail, Unmailed
    <2> QED BY <1>1, <2>1 DEF At, InvoiceOf
  <1>2. ASSUME NEW r \in Requests, ClaimInvoiceMail(r) PROVE Mailing'
    <2> DEFINE i == InvoiceOf(r)
    <2>1. i \in Invoices /\ request[r].at = "claimmail"
      BY <1>2, EventsAssumption
      DEF ClaimInvoiceMail, RequestOK, At, InvoiceOf, InvoiceSteps, PaidSteps, InvoiceTypes
    <2>2. /\ \A s \in Requests \ {r} : request'[s] = request[s]
          /\ UNCHANGED invoiceMails
      BY <1>2, TypedHandler DEF StepOK, HandlerStep, ClaimInvoiceMail
    <2>3. CASE Unmailed(i)
      <3>1. invoiceSent' = [invoiceSent EXCEPT ![i] = TRUE] /\ ~invoiceSent[i]
        BY <1>2, <2>3 DEF ClaimInvoiceMail, Unmailed
      <3>2. InvoiceOf(r)' = i
        BY <1>2, <2>3 DEF ClaimInvoiceMail, Goto, InvoiceOf, RequestType
      <3> QED BY <2>1, <2>2, <3>1, <3>2, <1>0 DEF At, InvoiceOf
    <2>4. CASE ~Unmailed(i)
      BY <1>1, <1>2, <2>2, <2>4 DEF ClaimInvoiceMail
    <2> QED BY <2>3, <2>4
  <1>3. ASSUME NEW r \in Requests, SendInvoiceEmail(r) PROVE Mailing'
    <2> DEFINE i == InvoiceOf(r)
    <2>1. /\ i \in Invoices /\ At(r, "invoicemail") /\ invoiceSent[i] /\ invoiceMails[i] = 0
          /\ invoiceMails' = [invoiceMails EXCEPT ![i] = 1] /\ UNCHANGED invoiceSent
      <3>1. At(r, "invoicemail") /\ UNCHANGED invoiceSent
        BY <1>3 DEF SendInvoiceEmail
      <3>2. i \in Invoices /\ invoiceSent[i] /\ invoiceMails[i] = 0
        BY <1>0, <3>1
      <3>3. invoiceMails' = [invoiceMails EXCEPT ![i] = invoiceMails[i] + 1]
        BY <1>3 DEF SendInvoiceEmail
      <3> QED BY <3>1, <3>2, <3>3
    <2>2. /\ \A s \in Requests \ {r} : request'[s] = request[s]
          /\ request'[r].at = "respond"
      BY <1>3, TypedHandler DEF StepOK, HandlerStep, SendInvoiceEmail, Goto, RequestType
    <2>3. \A s \in Requests : At(s, "invoicemail")' =>
              s # r /\ At(s, "invoicemail") /\ InvoiceOf(s)' = InvoiceOf(s)
      BY <2>2 DEF At, InvoiceOf
    <2> HIDE DEF i
    <2>4. \A s \in Requests : At(s, "invoicemail")' => InvoiceOf(s) # i /\ InvoiceOf(s) \in Invoices
      BY <2>1, <2>3, <1>0 DEF i
    <2> QED BY <2>1, <2>3, <2>4
  <1>4. ASSUME NEW r \in Requests, MailGivenBack(r) PROVE Mailing'
    <2>1. \A s \in Requests : At(s, "invoicemail")' =>
              s # r /\ At(s, "invoicemail") /\ InvoiceOf(s)' = InvoiceOf(s)
      <3>1. ASSUME NEW s \in Requests, ClaimInvoiceMail(s) PROVE request'[r] = request[r] \/ s = r
        BY <3>1, TypedHandler DEF StepOK, HandlerStep
      <3>2. ASSUME NEW s \in Requests, ClaimInvoiceMail(s) PROVE request'[s].at # "idle"
        BY <3>2 DEF ClaimInvoiceMail, Goto, RequestType
      <3> QED BY <1>4, <3>1, <3>2, MailStepSource DEF MailGivenBack, At, InvoiceOf
    <2> QED BY <1>0, <1>1, <1>4, <2>1 DEF MailGivenBack
  <1> QED BY <1>1, <1>2, <1>3, <1>4, MailFrame

\* The provider confirms at most one mail per invoice.
THEOREM OneMailPerInvoice == Spec => []InvoiceMailedAtMostOnce
  <1>1. Init => Mailing
    BY DEF Init, StartWith, Mailing, InvoiceMailedAtMostOnce, At, Idle
  <1>2. InboxInv /\ Mailing /\ [Next]_vars => Mailing'
    BY MailingNext DEF InboxInv
  <1>3. Mailing => InvoiceMailedAtMostOnce
    BY DEF Mailing
  <1> QED BY <1>1, <1>2, <1>3, InboxInvariant, PTL DEF Spec

-----------------------------------------------------------------------------
(* What a buyer has when the lead is won, and what a handled payment leaves. *)

\* Domains, key mails and booked entries are never taken back.
LEMMA Growing ==
    ASSUME Typed, [Next]_vars
    PROVE  /\ \A x \in Rows : domains[x] \subseteq domains'[x]
           /\ keyMails \subseteq keyMails'
           /\ outbox \subseteq outbox'
  <1> USE DEF Typed, TypeOK
  <1>1. ASSUME NEW r \in Requests, Delivery(r) \/ FaultStep(r)
        PROVE  UNCHANGED <<domains, outbox>> /\ keyMails \subseteq keyMails'
    BY <1>1
    DEF Delivery, Deliver, DeliverAfterTimeout, Claim, FaultStep, Fail, FailAfterAccessEmail,
        FailUnclean, Crash
  <1>2. ASSUME NEW r \in Requests, HandlerStep(r)
        PROVE  /\ \A x \in Rows : domains[x] \subseteq domains'[x]
               /\ keyMails \subseteq keyMails'
               /\ outbox \subseteq outbox'
    BY <1>2
    DEF HandlerStep, RecordCompletedCheckout, ReadLead, LookupCustomer, UpdateCustomer,
        ReplaceKey, InsertCustomer, EnsureDomain, SendAccessEmail, MarkLeadWon,
        RecordActivation, UpsertInvoice, SetCustomerStatus, QueuePaymentFailure, RecordPurchase,
        ClaimInvoiceMail, SendInvoiceEmail, Respond, RefuseDuplicate
  <1> QED BY <1>1, <1>2, StripeFrame DEF Next, SetPipelineStage, vars

DomainReady(r) == LeadDomain[LeadOf(r)] \in domains[request[r].row]
KeyMailed(r) == <<LeadOf(r), request[r].key>> \in keyMails

Serving == /\ \A r \in Requests : request[r].at \in {"keymail", "won"} => DomainReady(r)
           /\ \A r \in Requests : At(r, "won") => KeyMailed(r)
           /\ WonLeadIsServed

\* A request reaches the mail and the win through the domain and the mail.
LEMMA ServingSource ==
    ASSUME Typed, [Next]_vars, NEW r \in Requests, request'[r].at \in {"keymail", "won"}
    PROVE  \/ request'[r] = request[r]
           \/ /\ EnsureDomain(r) \/ SendAccessEmail(r)
              /\ \E at \in Steps : Goto(r, at)
  <1> USE DEF Typed, TypeOK
  <1>1. CASE HandlerStep(r)
    BY <1>1
    DEF HandlerStep, RecordCompletedCheckout, ReadLead, LookupCustomer, UpdateCustomer,
        ReplaceKey, InsertCustomer, EnsureDomain, SendAccessEmail, MarkLeadWon,
        RecordActivation, UpsertInvoice, SetCustomerStatus, QueuePaymentFailure, RecordPurchase,
        ClaimInvoiceMail, SendInvoiceEmail, Respond, RefuseDuplicate, Withdraw, Goto, Idle,
        RequestType, Steps
  <1> QED BY <1>1, RequestFrame

\* Nothing a won lead has is taken away.
LEMMA ServingNext ==
    ASSUME InboxInv, RowsOfLeads, Serving, [Next]_vars
    PROVE  Serving'
  <1> USE EventsAssumption DEF InboxInv, Typed, TypeOK, Serving, At
  <1>1. ASSUME NEW r \in Requests, request'[r].at \in {"keymail", "won"}
        PROVE  DomainReady(r)' /\ (At(r, "won") => KeyMailed(r))'
    <2>1. CASE request'[r] = request[r]
      BY <1>1, <2>1, Growing DEF DomainReady, KeyMailed, LeadOf, RequestOK, RowSteps
    <2>2. CASE EnsureDomain(r)
      BY <1>1, <2>2
      DEF EnsureDomain, DomainReady, KeyMailed, LeadOf, Goto, RequestOK, RowSteps, RequestType
    <2>3. CASE SendAccessEmail(r)
      BY <1>1, <2>3 DEF SendAccessEmail, DomainReady, KeyMailed, LeadOf, Goto, RequestType
    <2> QED BY <1>1, <2>1, <2>2, <2>3, ServingSource
  <1>2. ASSUME NEW l \in Leads, leadCustomer'[l] = leadCustomer[l], leadCustomer[l] # NoRow
        PROVE  LET x == leadCustomer'[l]
               IN  /\ customer'[x] # NoCustomer /\ customer'[x].email = LeadEmail[l]
                   /\ LeadDomain[l] \in domains'[x]
                   /\ \E k \in Keys : <<l, k>> \in keyMails'
    <2>1. /\ leadCustomer[l] \in Rows /\ Exists(leadCustomer[l])
          /\ customer[leadCustomer[l]].email = LeadEmail[l]
          /\ LeadDomain[l] \in domains[leadCustomer[l]]
          /\ \E k \in Keys : <<l, k>> \in keyMails
      BY <1>2 DEF WonLeadIsServed
    <2> QED BY <1>2, <2>1, Growing, EmailsStay
  <1>3. UNCHANGED leadCustomer \/ \E r \in Requests : MarkLeadWon(r)
    <2>1. ASSUME NEW r \in Requests, Delivery(r) \/ FaultStep(r) \/ HandlerStep(r)
          PROVE  UNCHANGED leadCustomer \/ MarkLeadWon(r)
      BY <2>1
      DEF Delivery, Deliver, DeliverAfterTimeout, Claim, FaultStep, Fail, FailAfterAccessEmail,
        FailUnclean, Crash, HandlerStep, RecordCompletedCheckout, ReadLead, LookupCustomer,
        UpdateCustomer, ReplaceKey, InsertCustomer, EnsureDomain, SendAccessEmail, MarkLeadWon,
        RecordActivation, UpsertInvoice, SetCustomerStatus, QueuePaymentFailure, RecordPurchase,
        ClaimInvoiceMail, SendInvoiceEmail, Respond, RefuseDuplicate
    <2> QED BY <2>1, StripeFrame DEF Next, SetPipelineStage, vars
  <1>4. ASSUME NEW r \in Requests, MarkLeadWon(r), NEW l \in Leads, leadCustomer'[l] # leadCustomer[l]
        PROVE  LET x == leadCustomer'[l]
               IN  /\ customer'[x] # NoCustomer /\ customer'[x].email = LeadEmail[l]
                   /\ LeadDomain[l] \in domains'[x]
                   /\ \E k \in Keys : <<l, k>> \in keyMails'
    <2>1. l = LeadOf(r) /\ leadCustomer'[l] = request[r].row /\ request[r].at = "won"
      BY <1>4 DEF MarkLeadWon
    <2>2. UNCHANGED <<customer, domains, keyMails>>
      BY <1>4 DEF MarkLeadWon
    <2>3. request[r].row \in Rows /\ Exists(request[r].row) /\ request[r].key \in Keys
      BY <2>1 DEF RequestOK, RowSteps, KeySteps
    <2> QED BY <2>1, <2>2, <2>3 DEF RowsOfLeads, RowKnown, RowSteps, DomainReady, KeyMailed, Exists
  <1>5. WonLeadIsServed'
    BY <1>2, <1>3, <1>4 DEF WonLeadIsServed, Exists
  <1> QED BY <1>1, <1>5

\* A lead is linked to a customer that has the row, the domain and the key.
THEOREM WonMeansServed == Spec => []WonLeadIsServed
  <1>1. Init => Serving
    BY DEF Init, StartWith, Serving, WonLeadIsServed, At, Idle
  <1>2. InboxInv /\ RowsOfLeads /\ Serving /\ [Next]_vars => Serving'
    BY ServingNext
  <1>3. Serving => WonLeadIsServed
    BY DEF Serving
  <1> QED BY <1>1, <1>2, <1>3, RowsInvariant, PTL DEF Spec

RowOfLead(l) == \E x \in Rows : Exists(x) /\ customer[x].email = LeadEmail[l]
PurchaseBooked(e) == <<"purchase", e.invoice>> \in outbox
BookedSteps == {"claimmail", "invoicemail", "respond"}

Booking == /\ \A r \in Requests :
                 Activates(request[r].event) =>
                    /\ request[r].at \in {"invoice", "purchase"} \cup BookedSteps =>
                          RowOfLead(LeadOf(r))
                    /\ request[r].at \in BookedSteps => PurchaseBooked(request[r].event)
           /\ HandledPaymentIsBooked

\* A buyer's row is never deleted.
LEMMA RowsOfLeadsStay ==
    ASSUME Typed, [Next]_vars, NEW l \in Leads, RowOfLead(l)
    PROVE  RowOfLead(l)'
BY EmailsStay DEF RowOfLead, Exists

\* How a request that works on a payment reaches the steps after the activation.
LEMMA BookingSource ==
    ASSUME Typed, [Next]_vars, NEW r \in Requests,
           Activates(request'[r].event),
           request'[r].at \in {"invoice", "purchase"} \cup BookedSteps
    PROVE  /\ request'[r].event = request[r].event
           /\ \/ request'[r].at = request[r].at
              \/ request'[r].at = "invoice" /\ request[r].at \in {"update", "activated"}
              \/ request'[r].at = "purchase" /\ request[r].at = "invoice"
              \/ request'[r].at = "claimmail" /\ RecordPurchase(r)
              \/ request'[r].at \in BookedSteps /\ request[r].at \in BookedSteps
  <1> USE DEF Typed, TypeOK, BookedSteps, At
  <1>1. CASE HandlerStep(r)
    <2>1. CASE RecordCompletedCheckout(r) \/ SetCustomerStatus(r) \/ QueuePaymentFailure(r)
      BY <2>1 DEF RecordCompletedCheckout, SetCustomerStatus, QueuePaymentFailure, Goto, RequestOK,
         RequestType, CheckoutTypes, Activates
    <2>2. CASE UpdateCustomer(r) \/ RecordActivation(r) \/ RecordPurchase(r)
      BY <2>2 DEF UpdateCustomer, RecordActivation, RecordPurchase, Goto, RequestType
    <2>3. CASE UpsertInvoice(r)
      BY <2>3 DEF UpsertInvoice, Goto, RequestType
    <2>4. CASE ClaimInvoiceMail(r) \/ SendInvoiceEmail(r)
      BY <2>4 DEF ClaimInvoiceMail, SendInvoiceEmail, Goto, RequestType
    <2>5. CASE Respond(r) \/ RefuseDuplicate(r)
      BY <2>5 DEF Respond, RefuseDuplicate, Withdraw, Idle
    <2>6. CASE LookupCustomer(r) \/ ReadLead(r) \/ ReplaceKey(r) \/ InsertCustomer(r)
      BY <2>6 DEF LookupCustomer, ReadLead, ReplaceKey, InsertCustomer, Goto, RequestType
    <2>7. CASE EnsureDomain(r) \/ SendAccessEmail(r) \/ MarkLeadWon(r)
      BY <2>7 DEF EnsureDomain, SendAccessEmail, MarkLeadWon, Goto, RequestType
    <2> QED BY <1>1, <2>1, <2>2, <2>3, <2>4, <2>5, <2>6, <2>7 DEF HandlerStep
  <1> QED BY <1>1, RequestFrame DEF Activates

\* A payment is booked before it is answered.
LEMMA BookingNext ==
    ASSUME InboxInv, InboxInv', RowsOfLeads, Booking, [Next]_vars
    PROVE  Booking'
  <1> USE EventsAssumption DEF InboxInv, Typed, TypeOK
  <1>1. ASSUME NEW r \in Requests, Activates(request'[r].event),
               request'[r].at \in {"invoice", "purchase"} \cup BookedSteps
        PROVE  RowOfLead(LeadOf(r))'
    <2>1. LeadOf(r) \in Leads /\ LeadOf(r)' = LeadOf(r)
      BY <1>1, BookingSource DEF LeadOf, BookedSteps, RequestOK
    <2>2. CASE request[r].at \in {"update", "activated"}
      <3>1. RowOfLead(LeadOf(r))
        BY <2>2 DEF RowsOfLeads, RowKnown, RowSteps, RowOfLead, RequestOK
      <3>2. \A l \in Leads : RowOfLead(l) => RowOfLead(l)'
        BY RowsOfLeadsStay
      <3> QED BY <2>1, <3>1, <3>2 DEF RowOfLead
    <2>3. CASE request[r].at \in {"invoice", "purchase"} \cup BookedSteps
      <3>1. RowOfLead(LeadOf(r))
        BY <1>1, <2>3, BookingSource DEF Booking
      <3>2. \A l \in Leads : RowOfLead(l) => RowOfLead(l)'
        BY RowsOfLeadsStay
      <3> QED BY <2>1, <3>1, <3>2 DEF RowOfLead
    <2> QED BY <1>1, <2>2, <2>3, BookingSource DEF RecordPurchase, At
  <1>2. ASSUME NEW r \in Requests, Activates(request'[r].event),
               request'[r].at \in BookedSteps
        PROVE  PurchaseBooked(request[r].event)'
    <2>1. CASE RecordPurchase(r)
      BY <1>2, <2>1, BookingSource DEF RecordPurchase, PurchaseBooked, InvoiceOf
    <2>2. CASE request[r].at \in BookedSteps
      BY <1>2, <2>2, BookingSource, Growing DEF Booking, PurchaseBooked
    <2> QED BY <1>2, <2>1, <2>2, BookingSource DEF BookedSteps
  <1>3. ASSUME NEW e \in handled', Activates(e)
        PROVE  PurchaseBooked(e)' /\ RowOfLead(e.lead)'
    <2>1. e \in Events
      BY <1>3
    <2>2. PurchaseBooked(e) /\ RowOfLead(e.lead)
      <3>1. CASE e \in handled
        BY <1>3, <3>1 DEF Booking, HandledPaymentIsBooked, PurchaseBooked, RowOfLead
      <3>2. ASSUME NEW r \in Requests, HandlerStep(r), e \notin handled
            PROVE  request[r].at = "respond" /\ request[r].event = e
        BY <1>3, <3>2
        DEF HandlerStep, RecordCompletedCheckout, ReadLead, LookupCustomer, UpdateCustomer,
          ReplaceKey, InsertCustomer, EnsureDomain, SendAccessEmail, MarkLeadWon,
          RecordActivation, UpsertInvoice, SetCustomerStatus, QueuePaymentFailure, RecordPurchase,
          ClaimInvoiceMail, SendInvoiceEmail, Respond, RefuseDuplicate, At
      <3>3. ASSUME NEW r \in Requests, Delivery(r) \/ FaultStep(r) PROVE UNCHANGED handled
        BY <3>3
        DEF Delivery, Deliver, DeliverAfterTimeout, Claim, FaultStep, Fail,
          FailAfterAccessEmail, FailUnclean, Crash
      <3>4. CASE \E r \in Requests : request[r].at = "respond" /\ request[r].event = e
        BY <1>3, <3>4 DEF Booking, BookedSteps, LeadOf
      <3> QED BY <1>3, <3>1, <3>2, <3>3, <3>4, StripeFrame DEF Next, SetPipelineStage, vars
    <2> QED BY <2>1, <2>2, Growing, RowsOfLeadsStay DEF PurchaseBooked
  <1>4. HandledPaymentIsBooked'
    BY <1>3 DEF HandledPaymentIsBooked, PurchaseBooked, RowOfLead
  <1>5. ASSUME NEW r \in Requests, Activates(request'[r].event),
               request'[r].at \in BookedSteps
        PROVE  <<"purchase", request'[r].event.invoice>> \in outbox'
    BY <1>2, <1>5, BookingSource DEF PurchaseBooked, BookedSteps
  <1> QED BY <1>1, <1>4, <1>5 DEF Booking, PurchaseBooked

\* A payment that was answered with a 200 is booked.
THEOREM HandledMeansBooked == Spec => []HandledPaymentIsBooked
  <1>1. Init => Booking
    BY DEF Init, StartWith, Booking, HandledPaymentIsBooked, BookedSteps, Idle
  <1>2. InboxInv /\ InboxInv' /\ RowsOfLeads /\ Booking /\ [Next]_vars => Booking'
    BY BookingNext
  <1>3. Booking => HandledPaymentIsBooked
    BY DEF Booking
  <1> QED BY <1>1, <1>2, <1>3, RowsInvariant, PTL DEF Spec

-----------------------------------------------------------------------------
\* No step but the cockpit's takes a lead back from "won".
THEOREM WonStaysWon == Spec => WebhookKeepsLeadWon
  <1> DEFINE Keeps == faults'["stage"] = faults["stage"] =>
                        \A l \in Leads : leadStatus[l] = "won" => leadStatus'[l] = "won"
  <1>1. InboxInv /\ [Next]_vars => [Keeps]_vars
    <2> SUFFICES ASSUME InboxInv, [Next]_vars PROVE Keeps
      OBVIOUS
    <2> USE DEF InboxInv, Typed, TypeOK
    <2>1. ASSUME NEW r \in Requests, Delivery(r) \/ FaultStep(r) PROVE UNCHANGED leadStatus
      BY <2>1
      DEF Delivery, Deliver, DeliverAfterTimeout, Claim, FaultStep, Fail,
        FailAfterAccessEmail, FailUnclean, Crash
    <2>2. ASSUME NEW r \in Requests, HandlerStep(r)
          PROVE  UNCHANGED leadStatus \/ RecordCompletedCheckout(r) \/ MarkLeadWon(r)
      BY <2>2
      DEF HandlerStep, ReadLead, LookupCustomer, UpdateCustomer, ReplaceKey, InsertCustomer,
        EnsureDomain, SendAccessEmail, RecordActivation, UpsertInvoice, SetCustomerStatus,
        QueuePaymentFailure, RecordPurchase, ClaimInvoiceMail, SendInvoiceEmail, Respond,
        RefuseDuplicate
    <2>3. ASSUME NEW r \in Requests, RecordCompletedCheckout(r) \/ MarkLeadWon(r) PROVE Keeps
      BY <2>3 DEF RecordCompletedCheckout, StillNew, MarkLeadWon
    <2>4. ASSUME NEW l \in Leads, NEW stage \in PipelineStages, SetPipelineStage(l, stage)
          PROVE  faults'["stage"] # faults["stage"]
      BY <2>4 DEF SetPipelineStage, Spend, Faults
    <2> QED BY <2>1, <2>2, <2>3, <2>4, StripeFrame DEF Next, vars
  <1> QED BY <1>1, InboxInvariant, PTL DEF Spec, WebhookKeepsLeadWon
-----------------------------------------------------------------------------
(* Keys that were stored and not mailed                                      *)

\* No process ends, no clean-up fails, no delivery overlaps the handler of its own event, and the
\* cockpit stays out of it: what is left are errors, answered with a 500 and retried by Stripe.
RetriedErrorsOnly == \A f \in {"cleanup", "crash", "timeout", "stage"} : MaxFaults[f] = 0

\* Stripe reports one payment of a lead, by one event object.
OnePaymentPerLead ==
    \A d, e \in Events :
        d.type = "invoice.paid" /\ e.type = "invoice.paid" /\ d.lead = e.lead => d = e

\* A claim is held by the request that works on its event or by its having been handled, and what
\* was answered with a 200 was handled.
ClaimsAreHeld == /\ \A e \in billingEvents : Working(e) \/ e \in handled
                 /\ acked \subseteq handled

\* Once a lead is won its payment is past the activation, and not before.
Won(l) == leadStatus[l] = "won"
Activating == {"insert", "key", "domain", "keymail", "won"}
Activated == {"activated", "invoice", "purchase"} \cup BookedSteps
WonOnce ==
    /\ \A l \in Leads : Won(l) => RowOfLead(l)
    /\ \A e \in handled : Activates(e) => Won(e.lead)
    /\ \A r \in Requests :
          /\ request[r].at \in {"lookup", "update"} => (SeenWon(r) <=> Won(LeadOf(r)))
          /\ request[r].at \in Activating => ~Won(LeadOf(r))
          /\ Activates(request[r].event) /\ request[r].at \in Activated => Won(LeadOf(r))

\* The key of a row was mailed, or a payment of its buyer that is not through yet owes the mail of
\* it, or of the one that will replace it.
StoredKeyMailed(x) == \E l \in Leads : <<l, customer[x].key>> \in keyMails
Owes(e, x) ==
    /\ e \in emitted /\ Activates(e) /\ ~Won(e.lead)
    /\ LeadEmail[e.lead] = customer[x].email
    /\ \A r \in Requests : request[r].event = e /\ request[r].at \in KeySteps
                              => request[r].key = customer[x].key
KeysAreOwed == \A x \in Rows : Exists(x) => StoredKeyMailed(x) \/ \E e \in Events : Owes(e, x)

\* The faults that are left.
LEMMA RetriedStep ==
    ASSUME RetriedErrorsOnly, Typed, [Next]_vars
    PROVE  \/ StripeStep \/ UNCHANGED vars
           \/ \E r \in Requests : \/ \E e \in Events : Deliver(r, e)
                                  \/ HandlerStep(r) \/ Fail(r) \/ FailAfterAccessEmail(r)
  <1>1. ASSUME NEW f \in {"cleanup", "crash", "timeout", "stage"} PROVE ~Spend(f)
    <2>1. f \in Faults /\ MaxFaults[f] = 0
      BY <1>1 DEF RetriedErrorsOnly, Faults
    <2>2. faults[f] \in Nat
      BY <2>1 DEF Typed, TypeOK
    <2>. QED BY <2>1, <2>2 DEF Spend
  <1>2. \A r \in Requests : ~FailUnclean(r) /\ ~Crash(r)
    BY <1>1 DEF FailUnclean, Crash
  <1>3. \A r \in Requests, e \in Events : ~DeliverAfterTimeout(r, e)
    BY <1>1 DEF DeliverAfterTimeout
  <1>4. \A l \in Leads, stage \in PipelineStages : ~SetPipelineStage(l, stage)
    BY <1>1 DEF SetPipelineStage
  <1>. QED BY <1>2, <1>3, <1>4 DEF Next, Delivery, FaultStep

\* Who works, and what was handled or answered.
LEMMA ClaimsHeldNext ==
    ASSUME RetriedErrorsOnly, InboxInv, ClaimsAreHeld, [Next]_vars
    PROVE  ClaimsAreHeld'
  <1>. USE DEF InboxInv, Typed, TypeOK
  <1>0. ASSUME InboxKept, UNCHANGED acked PROVE ClaimsAreHeld'
    BY <1>0 DEF InboxKept, Kept, ClaimsAreHeld, Working
  <1>1. CASE StripeStep
    BY <1>1, <1>0 DEF StripeStep, CompleteCheckout, SettleCheckout, FinalizeInvoice, FailFinalization, PayInvoice,
        FailPayment, UpdateSubscription, CancelSubscription, Emits, InboxKept, Kept, Busy
  <1>2. CASE UNCHANGED vars
    BY <1>2, <1>0 DEF vars, InboxKept, Kept, Busy
  <1>3. ASSUME NEW r \in Requests, NEW e \in Events, Deliver(r, e) PROVE ClaimsAreHeld'
    <2>1. CASE e \in billingEvents
      BY <1>3, <2>1 DEF Deliver, Claim, ClaimsAreHeld, Working, Busy
    <2>2. CASE e \notin billingEvents
      <3>. DEFINE q == [Idle EXCEPT !.at = FirstStep(e), !.event = e]
      <3>1. e.type \in CheckoutTypes \cup InvoiceTypes \cup SubscriptionTypes
        BY EventsAssumption DEF EventTypes
      <3>2. FirstStep(e) # "idle"
        BY <3>1 DEF FirstStep, CheckoutTypes, InvoiceTypes, SubscriptionTypes
      <3>3. request' = [request EXCEPT ![r] = q] /\ q.at # "idle" /\ q.event = e
        BY <1>3, <2>2, <3>2 DEF Deliver, Claim, Idle
      <3>. HIDE DEF q
      <3>4. \A d \in Events : Working(d) => Working(d)'
        BY <1>3, <3>3 DEF Deliver, Claim, Working, Busy
      <3>5. Working(e)'
        BY <3>3 DEF Working, Busy
      <3>. QED BY <1>3, <2>2, <3>4, <3>5 DEF Deliver, Claim, ClaimsAreHeld
    <2>. QED BY <2>1, <2>2
  <1>4. ASSUME NEW r \in Requests, Busy(r), request' = [request EXCEPT ![r] = Idle],
               UNCHANGED <<acked, handled>>, billingEvents' = billingEvents \ {request[r].event}
        PROVE  ClaimsAreHeld'
    BY <1>4 DEF ClaimsAreHeld, Working, Busy, Idle
  <1>5. ASSUME NEW r \in Requests, Fail(r) \/ FailAfterAccessEmail(r) \/ RefuseDuplicate(r)
        PROVE  ClaimsAreHeld'
    BY <1>4, <1>5 DEF Fail, FailAfterAccessEmail, RefuseDuplicate, Withdraw, CanFail, At, Busy
  <1>6. ASSUME NEW r \in Requests, Respond(r) PROVE ClaimsAreHeld'
    BY <1>6 DEF Respond, ClaimsAreHeld, Working, Busy, Idle, At
  <1>7. ASSUME NEW r \in Requests, HandlerStep(r), ~Respond(r), ~RefuseDuplicate(r)
        PROVE  ClaimsAreHeld'
    <2>1. UNCHANGED acked /\ UNCHANGED <<billingEvents, handled>>
      BY <1>7 DEF HandlerStep, RecordCompletedCheckout, ReadLead, LookupCustomer, UpdateCustomer,
        ReplaceKey, InsertCustomer, EnsureDomain, SendAccessEmail, MarkLeadWon,
        RecordActivation, UpsertInvoice, SetCustomerStatus, QueuePaymentFailure, RecordPurchase,
        ClaimInvoiceMail, SendInvoiceEmail
    <2>2. Busy(r)' /\ Busy(r)
      BY <1>7 DEF HandlerStep, RecordCompletedCheckout, ReadLead, LookupCustomer, UpdateCustomer,
        ReplaceKey, InsertCustomer, EnsureDomain, SendAccessEmail, MarkLeadWon,
        RecordActivation, UpsertInvoice, SetCustomerStatus, QueuePaymentFailure, RecordPurchase,
        ClaimInvoiceMail, SendInvoiceEmail, At, Busy, Goto, RequestType
    <2>5. \A s \in Requests \ {r} : request'[s] = request[s]
      BY <1>7, TypedHandler DEF StepOK
    <2>3. CASE InboxKept
      BY <2>1, <2>3, <1>0
    <2>4. CASE ~InboxKept
      BY <1>7, <2>1, <2>2, <2>4, <2>5, HandlerInbox DEF InboxStep, Sends, Starts, Finishes, GivesUp, Ends, Claimed, Busy
    <2>. QED BY <2>3, <2>4
  <1>. QED BY <1>1, <1>2, <1>3, <1>5, <1>6, <1>7, RetriedStep

\* Only the end of an activation wins a lead, for good.
LEMMA WonGrows ==
    ASSUME RetriedErrorsOnly, Typed, [Next]_vars, NEW l \in Leads
    PROVE  /\ Won(l) => Won(l)'
           /\ Won(l)' => Won(l) \/ \E r \in Requests : MarkLeadWon(r) /\ LeadOf(r) = l
  <1>. USE DEF Typed, TypeOK
  <1>1. ASSUME NEW r \in Requests, (\E e \in Events : Deliver(r, e)) \/ Fail(r) \/ FailAfterAccessEmail(r)
        PROVE  UNCHANGED leadStatus
    BY <1>1 DEF Deliver, Claim, Fail, FailAfterAccessEmail
  <1>2. ASSUME NEW r \in Requests, HandlerStep(r)
        PROVE  UNCHANGED leadStatus \/ RecordCompletedCheckout(r) \/ MarkLeadWon(r)
    BY <1>2
    DEF HandlerStep, ReadLead, LookupCustomer, UpdateCustomer, ReplaceKey, InsertCustomer,
        EnsureDomain, SendAccessEmail, RecordActivation, UpsertInvoice, SetCustomerStatus,
        QueuePaymentFailure, RecordPurchase, ClaimInvoiceMail, SendInvoiceEmail, Respond,
        RefuseDuplicate
  <1>3. ASSUME NEW r \in Requests, RecordCompletedCheckout(r) PROVE Won(l)' <=> Won(l)
    BY <1>3 DEF RecordCompletedCheckout, StillNew, Won
  <1>4. ASSUME NEW r \in Requests, MarkLeadWon(r)
        PROVE  (Won(l) => Won(l)') /\ (Won(l)' => Won(l) \/ LeadOf(r) = l)
    BY <1>4 DEF MarkLeadWon, Won
  <1>5. UNCHANGED leadStatus => (Won(l)' <=> Won(l))
    BY DEF Won
  <1>. QED BY <1>1, <1>2, <1>3, <1>4, <1>5, RetriedStep, StripeFrame DEF vars

\* How a request reaches the steps of an activation, and those after it: there is no other way.
ReachesKey(r) ==
    /\ request'[r].event = request[r].event
    /\ \/ request'[r].at = "lookup" /\ request'[r].seen = leadStatus[LeadOf(r)] /\ ReadLead(r)
       \/ /\ request'[r].at = "update" /\ request[r].at = "lookup"
          /\ request'[r].seen = request[r].seen /\ UNCHANGED leadStatus
       \/ /\ request'[r].at = "insert" /\ request[r].at = "lookup"
          /\ Matching(LeadOf(r)) = {} /\ UNCHANGED leadStatus
       \/ request'[r].at = "key" /\ request[r].at = "update" /\ ~SeenWon(r)
       \/ /\ request'[r].at = "domain" /\ request[r].at \in {"insert", "key"}
          /\ InsertCustomer(r) \/ ReplaceKey(r)
       \/ /\ request'[r].key = request[r].key
          /\ \/ request'[r].at = "keymail" /\ request[r].at = "domain"
             \/ request'[r].at = "won" /\ request[r].at = "keymail"
       \/ request'[r].at = "activated" /\ MarkLeadWon(r)
       \/ request'[r].at = "invoice" /\ request[r].at = "activated"
       \/ request'[r].at = "invoice" /\ request[r].at = "update" /\ SeenWon(r)
       \/ request'[r].at \in Activated /\ request[r].at \in Activated

LEMMA KeySource ==
    ASSUME Typed, [Next]_vars, NEW r \in Requests, request'[r] # request[r],
           \/ request'[r].at \in {"lookup", "update"} \cup Activating
           \/ request'[r].at \in Activated /\ Activates(request'[r].event)
    PROVE  ReachesKey(r)
  <1>. USE DEF Typed, TypeOK, At, ReachesKey
  <1>0. request[r] \in RequestType
    OBVIOUS
  <1>1. CASE request'[r].at = "activated"
    <2>1. HandlerStep(r)
      BY <1>1, RequestFrame
    <2>2. MarkLeadWon(r)
      BY <1>1, <2>1 DEF HandlerStep, RecordCompletedCheckout, ReadLead, LookupCustomer, UpdateCustomer,
        ReplaceKey, InsertCustomer, EnsureDomain, SendAccessEmail,
        RecordActivation, UpsertInvoice, SetCustomerStatus, QueuePaymentFailure, RecordPurchase,
        ClaimInvoiceMail, SendInvoiceEmail, Respond, RefuseDuplicate, Withdraw, Goto, Idle, RequestType
    <2>. QED BY <1>1, <2>2, <1>0 DEF MarkLeadWon, Goto, RequestType
  <1>2. CASE request'[r].at \in Activated \ {"activated"}
    <2>1. Activates(request'[r].event)
      BY <1>2 DEF Activating, Activated, BookedSteps
    <2>2. request'[r].at \in {"invoice", "purchase"} \cup BookedSteps
      BY <1>2 DEF Activated
    <2>3. CASE request[r].at = "update" /\ request'[r].at = "invoice"
      <3>1. HandlerStep(r)
        BY <2>1, <2>3, RequestFrame DEF Activates
      <3>2. UpdateCustomer(r)
        BY <2>3, <3>1 DEF HandlerStep, RecordCompletedCheckout, ReadLead, LookupCustomer,
          ReplaceKey, InsertCustomer, EnsureDomain, SendAccessEmail, MarkLeadWon,
          RecordActivation, UpsertInvoice, SetCustomerStatus, QueuePaymentFailure, RecordPurchase,
          ClaimInvoiceMail, SendInvoiceEmail, Respond, RefuseDuplicate, Withdraw, Goto, Idle, RequestType
      <3>. QED BY <2>3, <3>2, <1>0 DEF UpdateCustomer, Goto, RequestType
    <2>4. CASE ~(request[r].at = "update" /\ request'[r].at = "invoice")
      BY <2>1, <2>2, <2>4, BookingSource DEF BookedSteps, Activated, RecordPurchase
    <2>. QED BY <2>3, <2>4
  <1>3. CASE request'[r].at \in {"lookup", "update"} \cup Activating
    <2>1. HandlerStep(r)
      BY <1>3, RequestFrame DEF Activating
    <2>2. CASE ReadLead(r) \/ LookupCustomer(r)
      BY <1>3, <2>2, <1>0 DEF ReadLead, LookupCustomer, Goto, RequestType, Activating
    <2>3. CASE UpdateCustomer(r) \/ EnsureDomain(r) \/ SendAccessEmail(r)
      BY <1>3, <2>3, <1>0 DEF UpdateCustomer, EnsureDomain, SendAccessEmail, Goto, RequestType, Activating
    <2>4. CASE ReplaceKey(r) \/ InsertCustomer(r)
      BY <1>3, <2>4, <1>0 DEF ReplaceKey, InsertCustomer, RequestType
    <2>5. CASE MarkLeadWon(r) \/ RecordActivation(r) \/ RecordCompletedCheckout(r) \/ SetCustomerStatus(r)
                  \/ QueuePaymentFailure(r) \/ RecordPurchase(r)
      BY <1>3, <2>5, <1>0 DEF MarkLeadWon, RecordActivation, RecordCompletedCheckout, SetCustomerStatus,
         QueuePaymentFailure, RecordPurchase, Goto, RequestType, Activating
    <2>6. CASE UpsertInvoice(r) \/ ClaimInvoiceMail(r) \/ SendInvoiceEmail(r) \/ Respond(r) \/ RefuseDuplicate(r)
      BY <1>3, <2>6, <1>0 DEF UpsertInvoice, ClaimInvoiceMail, SendInvoiceEmail, Respond, RefuseDuplicate,
         Withdraw, Goto, Idle, RequestType, Activating
    <2>. QED BY <2>1, <2>2, <2>3, <2>4, <2>5, <2>6 DEF HandlerStep
  <1>. QED BY <1>1, <1>2, <1>3

\* Two payments of one lead are one, and it has one request.
LEMMA OneActivation ==
    ASSUME OnePaymentPerLead, InboxInv, NEW r \in Requests, NEW s \in Requests,
           Busy(r), Busy(s), LeadOf(r) = LeadOf(s),
           request[r].event.type = "invoice.paid", request[s].event.type = "invoice.paid"
    PROVE  r = s
BY DEF OnePaymentPerLead, InboxInv, Typed, RequestOK, Claimed, OneHandlerPerEvent, LeadOf, Busy

\* An event is handled when its request answers.
LEMMA HandledSource ==
    ASSUME [Next]_vars, NEW e \in handled', e \notin handled
    PROVE  \E r \in Requests : request[r].at = "respond" /\ request[r].event = e
  <1>1. ASSUME NEW r \in Requests, HandlerStep(r)
        PROVE  request[r].at = "respond" /\ request[r].event = e
    BY <1>1
    DEF HandlerStep, RecordCompletedCheckout, ReadLead, LookupCustomer, UpdateCustomer,
      ReplaceKey, InsertCustomer, EnsureDomain, SendAccessEmail, MarkLeadWon,
      RecordActivation, UpsertInvoice, SetCustomerStatus, QueuePaymentFailure, RecordPurchase,
      ClaimInvoiceMail, SendInvoiceEmail, Respond, RefuseDuplicate, At
  <1>2. ASSUME NEW r \in Requests, Delivery(r) \/ FaultStep(r) PROVE UNCHANGED handled
    BY <1>2
    DEF Delivery, Deliver, DeliverAfterTimeout, Claim, FaultStep, Fail,
      FailAfterAccessEmail, FailUnclean, Crash
  <1>. QED BY <1>1, <1>2, StripeFrame DEF Next, SetPipelineStage, vars

\* What a request has read of its lead is still so.
LEMMA WonOnceNext ==
    ASSUME RetriedErrorsOnly, OnePaymentPerLead, InboxInv, InboxInv', RowsOfLeads, Booking, WonOnce,
           [Next]_vars
    PROVE  WonOnce'
  <1>. USE DEF InboxInv
  <1>1. ASSUME NEW l \in Leads, Won(l)' PROVE RowOfLead(l)'
    <2>1. CASE Won(l)
      BY <2>1, RowsOfLeadsStay DEF WonOnce
    <2>2. ASSUME NEW r \in Requests, MarkLeadWon(r), LeadOf(r) = l PROVE RowOfLead(l)'
      <3>1. request[r].at = "won"
        BY <2>2 DEF MarkLeadWon, At
      <3>2. RowOfLead(l)
        BY <2>2, <3>1 DEF Typed, RequestOK, RowSteps, RowsOfLeads, RowKnown, RowOfLead
      <3>. QED BY <3>2, RowsOfLeadsStay
    <2>. QED BY <1>1, <2>1, <2>2, WonGrows
  <1>2. ASSUME NEW r \in Requests, request'[r].at # "idle"
        PROVE  /\ request'[r].event \in Events /\ request'[r].event.lead \in Leads
               /\ LeadOf(r)' = request'[r].event.lead
    BY <1>2, EventsAssumption DEF Typed, RequestOK, LeadOf
  <1>3. ASSUME NEW r \in Requests, request[r].at \in {"lookup", "update"} \cup Activating, ~MarkLeadWon(r)
        PROVE  \A l \in Leads : l = LeadOf(r) => (Won(l)' <=> Won(l))
    <2>1. ASSUME NEW s \in Requests, MarkLeadWon(s), LeadOf(s) = LeadOf(r) PROVE FALSE
      <3>1. request[s].at = "won" /\ Busy(s) /\ Busy(r)
        BY <1>3, <2>1 DEF MarkLeadWon, At, Busy, Activating
      <3>2. request[s].event.type = "invoice.paid" /\ request[r].event.type = "invoice.paid"
        BY <1>3, <3>1 DEF Typed, RequestOK, PaidSteps, RowSteps, Activating
      <3>3. r = s
        BY <2>1, <3>1, <3>2, OneActivation
      <3>. QED BY <1>3, <2>1, <3>3
    <2>. QED BY <2>1, WonGrows
  <1>4. ASSUME NEW r \in Requests, request'[r] = request[r]
        PROVE  /\ request'[r].at \in {"lookup", "update"} => (SeenWon(r)' <=> Won(LeadOf(r))')
               /\ request'[r].at \in Activating => ~Won(LeadOf(r))'
               /\ Activates(request'[r].event) /\ request'[r].at \in Activated => Won(LeadOf(r))'
    <2>1. request'[r].at \in {"lookup", "update"} \cup Activating => (Won(LeadOf(r))' <=> Won(LeadOf(r)))
      <3>. SUFFICES ASSUME request'[r].at \in {"lookup", "update"} \cup Activating PROVE Won(LeadOf(r))' <=> Won(LeadOf(r))
        OBVIOUS
      <3>1. ~MarkLeadWon(r)
        BY <1>4 DEF MarkLeadWon, At, Goto, Typed, TypeOK, RequestType
      <3>2. LeadOf(r)' = LeadOf(r) /\ LeadOf(r) \in Leads
        BY <1>2, <1>4 DEF LeadOf, Activating
      <3>. QED BY <1>3, <1>4, <3>1, <3>2 DEF Won
    <2>2. SeenWon(r)' <=> SeenWon(r)
      BY <1>4 DEF SeenWon
    <2>3. CASE Activates(request'[r].event) /\ request'[r].at \in Activated
      <3>1. Won(LeadOf(r)) /\ LeadOf(r) \in Leads /\ LeadOf(r)' = LeadOf(r)
        BY <1>4, <1>2, <2>3 DEF WonOnce, Activated, BookedSteps, LeadOf
      <3>2. \A l \in Leads : Won(l) => Won(l)'
        BY WonGrows
      <3>. QED BY <3>1, <3>2, <2>3 DEF Won, Activated, Activating, BookedSteps
    <2>. QED BY <1>4, <2>1, <2>2, <2>3 DEF WonOnce
  <1>5. ASSUME NEW r \in Requests, request'[r] # request[r]
        PROVE  /\ request'[r].at \in {"lookup", "update"} => (SeenWon(r)' <=> Won(LeadOf(r))')
               /\ request'[r].at \in Activating => ~Won(LeadOf(r))'
               /\ Activates(request'[r].event) /\ request'[r].at \in Activated => Won(LeadOf(r))'
    <2>. SUFFICES ASSUME \/ request'[r].at \in {"lookup", "update"} \cup Activating
                         \/ Activates(request'[r].event) /\ request'[r].at \in Activated
                  PROVE  /\ request'[r].at \in {"lookup", "update"} => (SeenWon(r)' <=> Won(LeadOf(r))')
                         /\ request'[r].at \in Activating => ~Won(LeadOf(r))'
                         /\ request'[r].at \in Activated => Won(LeadOf(r))'
      OBVIOUS
    <2>1. ReachesKey(r)
      BY <1>5, KeySource
    <2>. DEFINE l == LeadOf(r)
    <2>2. l \in Leads /\ LeadOf(r)' = l
      BY <1>2, <2>1 DEF ReachesKey, LeadOf, Activating, Activated, BookedSteps
    <2>3. Won(LeadOf(r))' <=> Won(l)'
      BY <2>2 DEF Won
    <2>4. Won(l) => Won(l)'
      BY <2>2, WonGrows
    <2>5. ASSUME request[r].at \in {"lookup", "update"} \cup Activating, ~MarkLeadWon(r) PROVE Won(l)' <=> Won(l)
      BY <1>3, <2>2, <2>5
    <2>6. request'[r].at \in {"domain", "keymail", "won", "key"} => ~MarkLeadWon(r)
      BY DEF MarkLeadWon, Goto, Typed, TypeOK, RequestType
    <2>. HIDE DEF l
    <2>7. UNCHANGED leadStatus => (Won(l)' <=> Won(l))
      BY <2>2 DEF Won, l
    <2>8. CASE request'[r].at = "lookup" /\ request'[r].seen = leadStatus[LeadOf(r)] /\ ReadLead(r)
      BY <2>3, <2>7, <2>8 DEF Activating, Activated, BookedSteps, SeenWon, ReadLead, Won, l
    <2>9. CASE /\ request'[r].at = "update" /\ request[r].at = "lookup"
               /\ request'[r].seen = request[r].seen /\ UNCHANGED leadStatus
      BY <2>3, <2>7, <2>9 DEF WonOnce, Activating, Activated, BookedSteps, SeenWon, l
    <2>10. CASE /\ request'[r].at = "insert" /\ request[r].at = "lookup"
                /\ Matching(LeadOf(r)) = {} /\ UNCHANGED leadStatus
      <3>1. ~RowOfLead(l)
        BY <2>10 DEF RowOfLead, Matching, l
      <3>. QED BY <2>2, <2>3, <2>7, <2>10, <3>1 DEF WonOnce, Activating, Activated, BookedSteps
    <2>11. CASE request'[r].at = "key" /\ request[r].at = "update" /\ ~SeenWon(r)
      BY <2>3, <2>5, <2>6, <2>11 DEF WonOnce, Activating, Activated, BookedSteps, l
    <2>12. CASE \/ request'[r].at = "domain" /\ request[r].at \in {"insert", "key"}
                \/ request'[r].at = "keymail" /\ request[r].at = "domain"
                \/ request'[r].at = "won" /\ request[r].at = "keymail"
      BY <2>3, <2>5, <2>6, <2>12 DEF WonOnce, Activating, Activated, BookedSteps, l
    <2>13. CASE request'[r].at = "activated" /\ MarkLeadWon(r)
      <3>1. Won(l)'
        BY <2>2, <2>13 DEF MarkLeadWon, Won, Typed, TypeOK, l
      <3>. QED BY <2>3, <2>13, <3>1 DEF Activating, Activated, BookedSteps
    <2>14. CASE request'[r].at = "invoice" /\ request[r].at \in {"activated", "update"}
      <3>1. Activates(request[r].event)
        BY <2>14 DEF Typed, RequestOK, PaidSteps, RowSteps
      <3>2. request[r].at = "update" => SeenWon(r)
        BY <2>1, <2>14 DEF ReachesKey, Activated, BookedSteps
      <3>3. Won(l)
        BY <2>14, <3>1, <3>2 DEF WonOnce, Activated, l
      <3>. QED BY <2>3, <2>4, <2>14, <3>3 DEF Activating, Activated, BookedSteps
    <2>15. CASE request'[r].at \in Activated /\ request[r].at \in Activated
      <3>1. Activates(request[r].event)
        BY <2>1, <2>15 DEF ReachesKey, Activating, Activated, BookedSteps
      <3>2. Won(l)
        BY <2>15, <3>1 DEF WonOnce, l
      <3>. QED BY <2>3, <2>4, <2>15, <3>2 DEF Activating, Activated, BookedSteps
    <2>. QED BY <2>1, <2>8, <2>9, <2>10, <2>11, <2>12, <2>13, <2>14, <2>15 DEF ReachesKey
  <1>6. ASSUME NEW e \in handled', Activates(e) PROVE Won(e.lead)'
    <2>1. e \in Events /\ e.lead \in Leads
      BY <1>6, EventsAssumption DEF Typed, TypeOK
    <2>2. CASE e \in handled
      BY <1>6, <2>1, <2>2, WonGrows DEF WonOnce
    <2>3. CASE e \notin handled
      <3>1. PICK r \in Requests : request[r].at = "respond" /\ request[r].event = e
        BY <1>6, <2>3, HandledSource
      <3>2. Won(e.lead)
        BY <1>6, <3>1 DEF WonOnce, Activated, BookedSteps, LeadOf
      <3>. QED BY <2>1, <3>2, WonGrows
    <2>. QED BY <2>2, <2>3
  <1>. QED BY <1>1, <1>4, <1>5, <1>6 DEF WonOnce

-----------------------------------------------------------------------------
\* A row's key is written by the request that is to mail it.
StoresKey(r, x) ==
    /\ request[r].at \in {"key", "insert"} /\ request'[r].at = "domain"
    /\ request'[r].event = request[r].event
    /\ request'[r].key = customer'[x].key
    /\ customer'[x].email = LeadEmail[LeadOf(r)]
    /\ UNCHANGED <<emitted, leadStatus>>

\* The two statements that store a key, and the rest of the table.
LEMMA KeyWritten ==
    ASSUME InboxInv, RowsOfLeads, NEW r \in Requests, ReplaceKey(r) \/ InsertCustomer(r)
    PROVE  \E x \in Rows : /\ StoresKey(r, x) /\ customer'[x] # NoCustomer
                           /\ \A y \in Rows \ {x} : customer'[y] = customer[y]
  <1>. USE NullsAssumption DEF InboxInv, Typed, TypeOK
  <1>1. CASE ReplaceKey(r)
    <2>. DEFINE x == request[r].row
                c == [customer[x] EXCEPT !.key = NewKey]
    <2>1. /\ request[r].at = "key" /\ x \in Rows /\ customer[x] \in Customers
          /\ customer[x].email = LeadEmail[LeadOf(r)] /\ customer' = [customer EXCEPT ![x] = c]
          /\ NewKey \in Keys
      BY <1>1, NewKeyIsFresh DEF ReplaceKey, RequestOK, RowSteps, At, Exists, RowsOfLeads, RowKnown
    <2>2. c.key = NewKey /\ c.email = customer[x].email /\ c \in Customers
      BY <2>1 DEF Customers
    <2>3. /\ request'[r].at = "domain" /\ request'[r].key = NewKey /\ request'[r].event = request[r].event
          /\ UNCHANGED <<emitted, leadStatus>>
      BY <1>1 DEF ReplaceKey, RequestType
    <2>. HIDE DEF c
    <2>4. PICK y \in Rows : y = x
      BY <2>1
    <2>5. customer'[y] = c /\ \A z \in Rows \ {y} : customer'[z] = customer[z]
      BY <2>1, <2>4
    <2>. HIDE DEF x
    <2>. QED BY <2>1, <2>2, <2>3, <2>4, <2>5 DEF StoresKey
  <1>2. CASE InsertCustomer(r)
    <2>. DEFINE l == LeadOf(r)
                c == [email |-> LeadEmail[l], domain |-> LeadDomain[l], plan |-> LeadPlan[l],
                      limit |-> LeadPlan[l], sub |-> l, status |-> "active", key |-> NewKey]
    <2>1. /\ request[r].at = "insert" /\ NewRow \in Rows /\ customer' = [customer EXCEPT ![NewRow] = c]
          /\ request'[r].at = "domain" /\ request'[r].key = NewKey /\ request'[r].event = request[r].event
          /\ UNCHANGED <<emitted, leadStatus>> /\ l \in Leads /\ NewKey \in Keys
      BY <1>2, EventsAssumption, NewRowIsFree, NewKeyIsFresh
      DEF InsertCustomer, At, RequestType, RequestOK, LeadOf
    <2>2. c.key = NewKey /\ c.email = LeadEmail[LeadOf(r)] /\ c \in Customers
      BY <2>1 DEF Customers, Emails, Domains, Plans, CustomerStatus
    <2>. HIDE DEF c
    <2>3. PICK x \in Rows : x = NewRow
      BY <2>1
    <2>4. customer'[x] = c /\ \A z \in Rows \ {x} : customer'[z] = customer[z]
      BY <2>1, <2>3
    <2>. QED BY <2>1, <2>2, <2>3, <2>4 DEF StoresKey
  <1>. QED BY <1>1, <1>2

\* No other statement changes a row's key.
LEMMA KeyStored ==
    ASSUME InboxInv, RowsOfLeads, [Next]_vars, NEW x \in Rows, customer'[x] # NoCustomer
    PROVE  \/ Exists(x) /\ customer'[x].key = customer[x].key
           \/ \E r \in Requests : StoresKey(r, x)
  <1>. USE DEF InboxInv, Typed, TypeOK
  <1>1. CASE UNCHANGED customer
    BY <1>1 DEF Exists
  <1>2. ASSUME NEW r \in Requests, UpdateCustomer(r) PROVE Exists(x) /\ customer'[x].key = customer[x].key
    <2>. DEFINE l == LeadOf(r)
                y == request[r].row
                c == [customer[y] EXCEPT !.status = "active", !.plan = LeadPlan[l],
                                         !.domain = LeadDomain[l], !.sub = l]
    <2>1. y \in Rows /\ Exists(y) /\ customer[y] \in Customers /\ customer' = [customer EXCEPT ![y] = c]
      BY <1>2 DEF UpdateCustomer, RequestOK, RowSteps, At, Exists
    <2>2. c.key = customer[y].key
      BY <2>1 DEF Customers
    <2>. HIDE DEF c, y
    <2>. QED BY <2>1, <2>2 DEF Exists
  <1>3. ASSUME NEW r \in Requests, SetCustomerStatus(r) PROVE Exists(x) /\ customer'[x].key = customer[x].key
    <2>. DEFINE c == [customer[x] EXCEPT !.status = StatusFor(request[r].event)]
    <2>1. customer'[x] = IF x \in Billed(request[r].event.lead) /\ ~NoBranch(request[r].event)
                         THEN c ELSE customer[x]
      BY <1>3 DEF SetCustomerStatus
    <2>2. x \in Billed(request[r].event.lead) => customer[x] \in Customers /\ Exists(x) /\ c.key = customer[x].key
      BY DEF Billed, Exists, Customers
    <2>. HIDE DEF c
    <2>. QED BY <2>1, <2>2 DEF Exists
  <1>4. ASSUME NEW r \in Requests, ReplaceKey(r) \/ InsertCustomer(r)
        PROVE  (Exists(x) /\ customer'[x].key = customer[x].key) \/ StoresKey(r, x)
    BY <1>4, KeyWritten DEF Exists
  <1>. QED BY <1>1, <1>2, <1>3, <1>4, CustomerFrame

\* What is stored is mailed or owed.
LEMMA KeysOwedNext ==
    ASSUME RetriedErrorsOnly, OnePaymentPerLead, InboxInv, InboxInv', RowsOfLeads, RowsOfLeads', Serving,
           WonOnce, KeysAreOwed, [Next]_vars
    PROVE  KeysAreOwed'
  <1>. USE DEF InboxInv
  <1>. SUFFICES ASSUME NEW x \in Rows, Exists(x)'
                PROVE  StoredKeyMailed(x)' \/ \E e \in Events : Owes(e, x)'
    BY DEF KeysAreOwed
  <1>0. customer'[x] # NoCustomer
    BY DEF Exists
  \* The request that stores a key owes its mail.
  <1>1. ASSUME NEW r \in Requests, StoresKey(r, x) PROVE \E e \in Events : Owes(e, x)'
    <2>0. request[r].event \in Events
      BY <1>1 DEF StoresKey, Typed, RequestOK
    <2>1. PICK e \in Events : e = request[r].event
      BY <2>0
    <2>2. /\ Activates(e) /\ e.lead \in Leads /\ Busy(r) /\ e \in emitted
      BY <1>1, <2>1, EventsAssumption DEF StoresKey, Typed, RequestOK, PaidSteps, RowSteps, Busy, Claimed
    <2>3. ~Won(e.lead)
      BY <1>1, <2>1 DEF StoresKey, WonOnce, Activating, LeadOf
    <2>4. ASSUME NEW s \in Requests, request'[s].event = e, request'[s].at \in KeySteps
          PROVE  request'[s].key = customer'[x].key
      <3>1. Busy(s)' /\ Busy(r)' /\ request'[r].event = e
        BY <1>1, <2>1, <2>4 DEF StoresKey, Busy, KeySteps
      <3>2. s = r
        BY <2>4, <3>1 DEF Claimed, OneHandlerPerEvent
      <3>. QED BY <1>1, <3>2 DEF StoresKey
    <2>5. LeadEmail[e.lead] = customer'[x].email
      BY <1>1, <2>1 DEF StoresKey, LeadOf
    <2>. QED BY <1>1, <2>2, <2>3, <2>4, <2>5 DEF Owes, Won, StoresKey
  <1>2. ASSUME Exists(x), customer'[x].key = customer[x].key, StoredKeyMailed(x) PROVE StoredKeyMailed(x)'
    BY <1>2, Growing DEF StoredKeyMailed
  \* What was owed is owed still, unless it was mailed.
  <1>3. ASSUME Exists(x), customer'[x].key = customer[x].key, NEW e \in Events, Owes(e, x)
        PROVE  StoredKeyMailed(x)' \/ Owes(e, x)'
    <2>1. e \in emitted' /\ customer'[x].email = customer[x].email /\ e.lead \in Leads
      BY <1>3, EmailsStay, NextInbox, EventsAssumption
      DEF Owes, InboxStep, InboxKept, Sends, Starts, Finishes, GivesUp, Ends
    <2>2. CASE Won(e.lead)'
      <3>1. PICK r \in Requests : MarkLeadWon(r) /\ LeadOf(r) = e.lead
        BY <1>3, <2>1, <2>2, WonGrows DEF Owes
      <3>2. request[r].at = "won" /\ request[r].event \in Events /\ request[r].event.type = "invoice.paid"
        BY <3>1 DEF MarkLeadWon, At, Typed, RequestOK, PaidSteps, RowSteps
      <3>3. request[r].event = e
        BY <1>3, <3>1, <3>2 DEF OnePaymentPerLead, Owes, LeadOf, Activates
      <3>4. request[r].key = customer[x].key
        BY <1>3, <3>2, <3>3 DEF Owes, KeySteps
      <3>5. StoredKeyMailed(x)
        BY <2>1, <3>1, <3>2, <3>4 DEF Serving, KeyMailed, At, StoredKeyMailed
      <3>. QED BY <1>2, <1>3, <3>5
    <2>3. ASSUME NEW r \in Requests, request'[r].event = e, request'[r].at \in KeySteps
          PROVE  request'[r].key = customer'[x].key
      <3>1. CASE request'[r] = request[r]
        BY <1>3, <2>3, <3>1 DEF Owes
      <3>2. CASE request'[r] # request[r]
        <4>1. ReachesKey(r)
          BY <2>3, <3>2, KeySource DEF KeySteps, Activating
        <4>2. CASE request'[r].key = request[r].key /\ request[r].at \in KeySteps
          BY <1>3, <2>3, <4>1, <4>2 DEF Owes, ReachesKey
        <4>3. CASE InsertCustomer(r) \/ ReplaceKey(r)
          <5>1. PICK y \in Rows : StoresKey(r, y) /\ customer'[y] # NoCustomer
            BY <4>3, KeyWritten
          <5>2. customer'[y].email = customer'[x].email
            BY <1>3, <2>1, <2>3, <5>1 DEF StoresKey, Owes, LeadOf
          <5>3. y = x
            BY <1>0, <5>1, <5>2 DEF RowsOfLeads, Exists
          <5>. QED BY <5>1, <5>3 DEF StoresKey
        <4>. QED BY <2>3, <4>1, <4>2, <4>3 DEF ReachesKey, KeySteps, Activated, BookedSteps
      <3>. QED BY <3>1, <3>2
    <2>. QED BY <1>3, <2>1, <2>2, <2>3 DEF Owes, Won
  <1>. QED BY <1>0, <1>1, <1>2, <1>3, KeyStored DEF KeysAreOwed

\* With retried errors as the only faults and one event per payment, the key stored for a customer
\* is one that was mailed once everything is delivered: whatever attempt stored it last is either
\* through, or is repeated and replaces it.
THEOREM StoredKeysAreMailed ==
    ASSUME RetriedErrorsOnly, OnePaymentPerLead
    PROVE  Spec => []StoredKeyWasMailed
  <1>. DEFINE MailedInv == Serving /\ Booking /\ ClaimsAreHeld /\ WonOnce /\ KeysAreOwed
  <1>1. Init => MailedInv
    BY DEF Init, StartWith, Serving, WonLeadIsServed, Booking, HandledPaymentIsBooked, BookedSteps, At, Idle,
       ClaimsAreHeld, WonOnce, Won, Activating, Activated, KeysAreOwed, Exists
  <1>2. InboxInv /\ InboxInv' /\ RowsOfLeads /\ RowsOfLeads' /\ MailedInv /\ [Next]_vars => MailedInv'
    BY ServingNext, BookingNext, ClaimsHeldNext, WonOnceNext, KeysOwedNext
  <1>3. InboxInv /\ MailedInv => StoredKeyWasMailed
    <2>. SUFFICES ASSUME ClaimsAreHeld, WonOnce, KeysAreOwed, Quiet, NEW x \in Rows, Exists(x)
                  PROVE  StoredKeyMailed(x)
      BY DEF StoredKeyWasMailed, StoredKeyMailed
    <2>1. ASSUME NEW e \in Events, Owes(e, x) PROVE FALSE
      BY <2>1 DEF Owes, Quiet, ClaimsAreHeld, WonOnce
    <2>. QED BY <2>1 DEF KeysAreOwed
  <1>. QED BY <1>1, <1>2, <1>3, RowsInvariant, PTL DEF Spec
=============================================================================
