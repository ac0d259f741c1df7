--------------------------- MODULE WidgetContract ---------------------------
(***************************************************************************)
(* The contract behind a widget subscription: a minimum term, then monthly  *)
(* renewal.  An annual order is billed yearly, so the webhook turns its      *)
(* subscription into a Stripe schedule (configureAnnualToMonthlySchedule);   *)
(* the customer's account cancels and resumes through that schedule, or      *)
(* through the subscription where there is none.                             *)
(*                                                                          *)
(* All orders here are of one buyer, so there is one widget_customers row.   *)
(* Every SQL statement and every call to Stripe is a step of its own, except *)
(* that the row and the lead that are written one after the other at the     *)
(* end of an activation are written in one.  Stripe's clock is external.     *)
(***************************************************************************)
EXTENDS Naturals, Sequences, SequencesExt, FiniteSets

CONSTANTS
    Orders,     \* leads of the buyer, each with one subscription
    Interval,   \* billing_interval of each order
    Ordered,    \* when the form was sent; the minimum term is counted from then
    Schedules,  \* ids of subscription schedules
    Webhooks,   \* webhook requests at work
    Accounts,   \* cancel and resume requests at work
    Year,       \* a year, in months
    Horizon,    \* bound on the calendar
    MaxSubscriptions, \* bound on the orders that are completed
    ContractFaults, \* BOOLEAN: statements and calls may fail
    Nothing     \* null

ASSUME YearAssumption == Year \in Nat \ {0, 1} /\ Horizon \in Nat
ASSUME OrderAssumption ==
    /\ IsFiniteSet(Orders)
    /\ Interval \in [Orders -> {"annual", "monthly"}] /\ Ordered \in [Orders -> 0..Horizon]

Never == Horizon + 2 * Year  \* a date after all others
Dates == 0..Never
Months(price) == IF price = "annual" THEN Year ELSE 1
TermEnd(o) == Ordered[o] + Year

VARIABLES
    now,
    subscription, \* at Stripe: state, price, end of the paid period, cancel_at, schedule
    schedule,     \* at Stripe: state, subscription, phases, end_behavior
    lead,         \* status = 'new'?, stripe_subscription_schedule_id
    row,          \* widget_customers: order, term, schedule id, end of the paid period
    webhook, account,
    configured    \* history: schedules whose configuring call took effect

stripeVars == <<subscription, schedule, configured>>
contractVars == <<now, stripeVars, lead, row, webhook, account>>

NoSubscription == [state |-> "none"]
NoSchedule == [state |-> "none"]
Running(o) == subscription[o].state = "active"
Set(v, r, step) == [v EXCEPT ![r].at = step]

-----------------------------------------------------------------------------
(* Stripe: checkout, the calendar and what a schedule does at its dates.    *)

Subscribe(o) ==
    /\ subscription[o] = NoSubscription /\ now >= Ordered[o]
    /\ Cardinality({p \in Orders : subscription[p] # NoSubscription}) < MaxSubscriptions
    /\ subscription' = [subscription EXCEPT ![o] =
          [state |-> "active", since |-> now, price |-> Interval[o], cancelAt |-> Never,
           until |-> now + Months(Interval[o]), schedule |-> Nothing]]
    /\ UNCHANGED <<now, schedule, configured, lead, row, webhook, account>>

Phase(start, end, price) == [start |-> start, end |-> end, price |-> price]
PriceAt(phases, t) == phases[CHOOSE i \in DOMAIN phases : phases[i].end > t /\
                                 \A j \in 1..(i - 1) : phases[j].end <= t].price

Active(c) == c # Nothing /\ schedule[c].state = "active"
Runs(c, t) == Active(c) /\ Last(schedule[c].phases).end > t

Renewed(s, t) ==
    IF s.until > t THEN s
    ELSE [s EXCEPT !.until = t + Months(s.price)]
Ended(s) == [s EXCEPT !.state = "ended", !.schedule = Nothing]

AtDate(o, t) ==
    LET s == subscription[o] IN
    IF s.state # "active" THEN s
    ELSE IF Active(s.schedule)
    THEN IF Runs(s.schedule, t)
         THEN Renewed([s EXCEPT !.price = PriceAt(schedule[s.schedule].phases, t)], t)
         ELSE IF schedule[s.schedule].end = "cancel" THEN Ended(s)
         ELSE Renewed([s EXCEPT !.price = Last(schedule[s.schedule].phases).price,
                                !.schedule = Nothing], t)
    ELSE IF s.cancelAt <= t THEN Ended(s) ELSE Renewed(s, t)

\* A webhook request takes seconds, so no date passes while one is at work; the account
\* compares its date with the clock twice, so for that one it may.
PassTime ==
    /\ now < Horizon
    /\ \A h \in Webhooks : webhook[h] = Nothing
    /\ now' = now + 1
    /\ subscription' = [o \in Orders |-> AtDate(o, now')]
    /\ schedule' = [c \in Schedules |->
          IF Active(c) /\ ~Runs(c, now') THEN [schedule[c] EXCEPT !.state = "over"]
          ELSE schedule[c]]
    /\ UNCHANGED <<configured, lead, row, webhook, account>>

\* Stripe takes an update of an active schedule; its running phase gives the price.
PutSchedule(c, phases, end) ==
    /\ Active(c)
    /\ schedule' = [schedule EXCEPT ![c].phases = phases, ![c].end = end]
    /\ LET o == schedule[c].order IN
       subscription' = [subscription EXCEPT ![o].price =
          IF Last(phases).end > now THEN PriceAt(phases, now) ELSE @]

-----------------------------------------------------------------------------
(* The webhook: checkout.session.completed, invoice.paid and                *)
(* customer.subscription.updated of one order.                              *)

StartWebhook(h, record) == webhook[h] = Nothing /\ webhook' = [webhook EXCEPT ![h] = record]
EndWebhook(h) == webhook' = [webhook EXCEPT ![h] = Nothing]
WebhookAt(h, step) == webhook[h] # Nothing /\ webhook[h].at = step

\* recordCompletedCheckout: the schedule first, then the lead, if it is still new.  Stripe
\* repeats an event for three days, so within the first month.
CheckoutCompleted(h, o) ==
    /\ subscription[o] # NoSubscription /\ subscription[o].since = now
    /\ StartWebhook(h, [at |-> IF Interval[o] = "annual" THEN "find" ELSE "lead", for |-> "checkout",
                        order |-> o, schedule |-> Nothing, first |-> Nothing, until |-> Nothing])
    /\ UNCHANGED <<now, stripeVars, lead, row, account>>

\* activatePaidWidgetSubscription: the subscription, then the lead's schedule.
InvoicePaid(h, o) ==
    /\ subscription[o] # NoSubscription
    /\ LET known == IF subscription[o].schedule # Nothing
                    THEN subscription[o].schedule ELSE lead[o].schedule
           fresh == Interval[o] = "annual" /\ known = Nothing
       IN StartWebhook(h, [at |-> IF fresh THEN "find" ELSE "row", for |-> "payment",
                           order |-> o, schedule |-> known, first |-> Nothing,
                           until |-> subscription[o].until])
    /\ UNCHANGED <<now, stripeVars, lead, row, account>>

SubscriptionUpdated(h, o) ==
    /\ subscription[o] # NoSubscription
    /\ StartWebhook(h, [at |-> "sync", for |-> "update", order |-> o, schedule |-> Nothing,
                        first |-> Nothing, until |-> subscription[o].until])
    /\ UNCHANGED <<now, stripeVars, lead, row, account>>

AfterSchedule(h) == IF webhook[h].for = "checkout" THEN "lead" ELSE "row"

FindSchedule(h) ==
    /\ WebhookAt(h, "find")
    /\ LET c == subscription[webhook[h].order].schedule IN
       webhook' = IF c = Nothing THEN Set(webhook, h, "create")
                  ELSE [webhook EXCEPT ![h].schedule = c, ![h].at = AfterSchedule(h)]
    /\ UNCHANGED <<now, stripeVars, lead, row, account>>

\* from_subscription: one phase, the running period, after which Stripe releases.
CreateSchedule(h) ==
    /\ WebhookAt(h, "create")
    /\ LET o == webhook[h].order
           s == subscription[o]
           first == Phase(s.until - Months(s.price), s.until, s.price)
       IN /\ Running(o) /\ s.schedule = Nothing
          /\ \E c \in Schedules :
                /\ schedule[c] = NoSchedule
                /\ schedule' = [schedule EXCEPT ![c] =
                      [state |-> "active", order |-> o, phases |-> <<first>>, end |-> "release"]]
                /\ subscription' = [subscription EXCEPT ![o].schedule = c]
                /\ webhook' = [webhook EXCEPT ![h].schedule = c, ![h].first = first,
                                                ![h].at = "configure"]
    /\ UNCHANGED <<now, configured, lead, row, account>>

AnnualOnly(first) == <<[first EXCEPT !.price = "annual"]>>  \* mutant

\* The running phase at the annual price, then a month at the monthly price.
AnnualThenMonthly(first) ==
    <<[first EXCEPT !.price = "annual"], Phase(first.end, first.end + 1, "monthly")>>

ConfigureSchedule(h) ==
    /\ WebhookAt(h, "configure")
    /\ LET c == webhook[h].schedule IN
       /\ PutSchedule(c, AnnualThenMonthly(webhook[h].first), "release")
       /\ configured' = configured \cup {c}
    /\ webhook' = [webhook EXCEPT ![h].first = Nothing, ![h].at = AfterSchedule(h)]
    /\ UNCHANGED <<now, lead, row, account>>

RecordLead(h) ==
    /\ WebhookAt(h, "lead")
    /\ LET o == webhook[h].order IN
       lead' = [lead EXCEPT ![o] =
          IF @.new THEN [new |-> FALSE, schedule |-> IF webhook[h].schedule # Nothing
                                                     THEN webhook[h].schedule ELSE @.schedule]
          ELSE @]
    /\ EndWebhook(h)
    /\ UNCHANGED <<now, stripeVars, row, account>>

\* The row is written, and the lead won: coalesce keeps the schedule id the row has.
ActivateRow(h) ==
    /\ WebhookAt(h, "row")
    /\ LET o == webhook[h].order
           kept == IF row = Nothing THEN Nothing ELSE row.schedule
       IN /\ row' = [order |-> o, term |-> TermEnd(o),
                     until |-> IF row = Nothing THEN Nothing ELSE row.until,
                     schedule |-> IF webhook[h].schedule # Nothing
                                  THEN webhook[h].schedule ELSE kept]
          /\ lead' = [lead EXCEPT ![o].new = FALSE]
    /\ webhook' = Set(webhook, h, "sync")
    /\ UNCHANGED <<now, stripeVars, account>>

\* syncWidgetSubscriptionDetails: what was read first is written last.
SyncDetails(h) ==
    /\ WebhookAt(h, "sync")
    /\ row' = IF row # Nothing /\ row.order = webhook[h].order
              THEN [row EXCEPT !.until = webhook[h].until]
              ELSE row
    /\ EndWebhook(h)
    /\ UNCHANGED <<now, stripeVars, lead, account>>

\* A statement or call throws: Stripe delivers the event again.
WebhookFails(h) ==
    /\ webhook[h] # Nothing /\ ContractFaults
    /\ EndWebhook(h)
    /\ UNCHANGED <<now, stripeVars, lead, row, account>>

\* The lead cockpit moves a lead on from 'new'.
LeadMoves(o) ==
    /\ lead[o].new
    /\ lead' = [lead EXCEPT ![o].new = FALSE]
    /\ UNCHANGED <<now, stripeVars, row, webhook, account>>

-----------------------------------------------------------------------------
(* The account: cancel_subscription and resume_subscription.  What they      *)
(* note in the row afterwards is only shown, and is left out.                *)

PaidUntil == IF row.until # Nothing /\ row.until > now THEN row.until ELSE now  \* mutant

PermittedDate ==
    IF row.term > now THEN row.term
    ELSE IF row.until # Nothing /\ row.until > now THEN row.until
    ELSE now

AccountAt(a, step) == account[a] # Nothing /\ account[a].at = step
EndAccount(a) == account' = [account EXCEPT ![a] = Nothing]

OpenAccount(a, cancel) ==
    /\ account[a] = Nothing /\ row # Nothing
    /\ account' = [account EXCEPT ![a] =
          [at |-> "read", cancel |-> cancel, date |-> IF cancel THEN PermittedDate ELSE Never,
           order |-> row.order, schedule |-> row.schedule, phases |-> <<>>]]
    /\ UNCHANGED <<now, stripeVars, lead, row, webhook>>

\* updateWidgetStripeScheduleCancellation reads the schedule; as phases follow one another, those
\* that begin before the date are its first ones ...
Truncated(phases, date) ==
    [i \in {j \in DOMAIN phases : phases[j].start < date} |->
        [phases[i] EXCEPT !.end = IF @ < date THEN @ ELSE date]]

ResumedUnchanged(phases) == phases  \* mutant
Resumed(phases) ==
    IF Len(phases) = 1
    THEN Append(phases, Phase(phases[1].end, phases[1].end + 1, "monthly"))
    ELSE phases
NewPhases(a, phases) ==
    IF account[a].cancel THEN Truncated(phases, account[a].date) ELSE Resumed(phases)

ReadSchedule(a) ==
    /\ AccountAt(a, "read")
    /\ LET c == account[a].schedule
           phases == IF Active(c) THEN NewPhases(a, schedule[c].phases) ELSE <<>>
       IN account' = [account EXCEPT ![a].phases = phases,
                                     ![a].at = IF phases = <<>> THEN "direct" ELSE "write"]
    /\ UNCHANGED <<now, stripeVars, lead, row, webhook>>

\* ... and writes all its phases back,
WriteSchedule(a) ==
    /\ AccountAt(a, "write")
    /\ PutSchedule(account[a].schedule, account[a].phases,
                   IF account[a].cancel THEN "cancel" ELSE "release")
    /\ EndAccount(a)
    /\ UNCHANGED <<now, configured, lead, row, webhook>>

\* updateWidgetStripeCancellation where there is no active schedule.
CancelDirectly(a) ==
    /\ AccountAt(a, "direct") /\ Running(account[a].order)
    /\ subscription' = [subscription EXCEPT ![account[a].order].cancelAt =
          IF ~account[a].cancel THEN Never
          ELSE IF account[a].date > now THEN account[a].date
          ELSE subscription[account[a].order].until]
    /\ EndAccount(a)
    /\ UNCHANGED <<now, schedule, configured, lead, row, webhook>>

\* A call fails, as one on a schedule that is over does, and the answer is a 503.
AccountFails(a) ==
    /\ account[a] # Nothing
    /\ \/ ContractFaults
       \/ account[a].at = "write" /\ ~Active(account[a].schedule)
       \/ account[a].at = "direct" /\ ~Running(account[a].order)
    /\ EndAccount(a)
    /\ UNCHANGED <<now, stripeVars, lead, row, webhook>>

-----------------------------------------------------------------------------
ContractInit ==
    /\ now = 0
    /\ subscription = [o \in Orders |-> NoSubscription]
    /\ schedule = [c \in Schedules |-> NoSchedule]
    /\ lead = [o \in Orders |-> [new |-> TRUE, schedule |-> Nothing]]
    /\ row = Nothing
    /\ webhook = [h \in Webhooks |-> Nothing]
    /\ account = [a \in Accounts |-> Nothing]
    /\ configured = {}

WebhookStep(h) ==
    \/ \E o \in Orders : CheckoutCompleted(h, o) \/ InvoicePaid(h, o) \/ SubscriptionUpdated(h, o)
    \/ FindSchedule(h) \/ CreateSchedule(h) \/ ConfigureSchedule(h)
    \/ RecordLead(h) \/ ActivateRow(h) \/ SyncDetails(h) \/ WebhookFails(h)

AccountStep(a) ==
    \/ \E cancel \in BOOLEAN : OpenAccount(a, cancel)
    \/ ReadSchedule(a) \/ WriteSchedule(a) \/ CancelDirectly(a) \/ AccountFails(a)

ContractNext ==
    \/ \E o \in Orders : Subscribe(o) \/ LeadMoves(o)
    \/ PassTime
    \/ \E h \in Webhooks : WebhookStep(h)
    \/ \E a \in Accounts : AccountStep(a)

ContractSpec == ContractInit /\ [][ContractNext]_contractVars

-----------------------------------------------------------------------------
\* docs/widget_billing.md: the cancellation interface enforces the minimum term.  Whatever
\* events and requests meet, no subscription ends before the term its buyer agreed to.
TermIsKept == \A o \in Orders : subscription[o].state = "ended" => now >= TermEnd(o)

\* Whichever of configuring, cancelling and resuming wins, a configured schedule that ends by
\* releasing its subscription releases it to the monthly price.
ReleasesToMonthly ==
    \A c \in configured :
        schedule[c].end = "release" => Last(schedule[c].phases).price = "monthly"

\* docs/widget_billing.md: after the annual phase the subscription continues monthly.
ContinuesMonthly ==
    [][\A o \in Orders :
          Running(o) /\ subscription[o].price = "monthly" => subscription'[o].price = "monthly"
      ]_contractVars
=============================================================================
