--------------------------- MODULE RevenueOutbox ---------------------------
(***************************************************************************)
(* The order form, and the hourly job that works off two tables: purchases   *)
(* to be reported to the analytics provider, which the webhook delivers at   *)
(* once too, and mails to be sent about leads and customers.  Runs of the    *)
(* job can overlap: the queue starts a stalled job again, and a deployment   *)
(* runs two workers for a while.  Only the UTC day and the month are kept    *)
(* of the time, so that 24 hours count as one day, and a run's query is one  *)
(* step.  The queries' limit of 100 rows lies above the instances.          *)
(***************************************************************************)
EXTENDS Naturals, FiniteSets

CONSTANTS
    Jobs,        \* runs of run-revenue-operations that can overlap
    Checkouts,   \* webhook requests that book a purchase
    Sales,       \* rows of widget_revenue_events with event_name 'purchase'
    Buyers,      \* leads that ask for the starter or growth plan
    Enterprises, \* leads that ask for the enterprise plan
    Customers,   \* active customers, older than a day
    StarterPlan, \* those of them on the starter plan
    MaxAttempts, \* 10
    LastDay, MonthLength,
    MaxMishaps   \* errors, lost answers and crashes a behaviour may contain

ASSUME JobsAssumption == IsFiniteSet(Jobs) /\ IsFiniteSet(Checkouts)
ASSUME AttemptsAssumption == MaxAttempts \in Nat \ {0}
ASSUME MishapsAssumption == MaxMishaps \in Nat
ASSUME DaysAssumption == LastDay \in Nat /\ MonthLength \in Nat \ {0}

Days == 0..LastDay
NoDay == LastDay + 1
Month(d) == d \div MonthLength
Deliverers == Jobs \cup Checkouts

\* dedupe_key: the type, whom it is about, and the day or month it belongs to.
Key(type, of, period) == [type |-> type, of |-> of, period |-> period]
MailKeys ==
    {Key("abandoned_checkout", l, 0) : l \in Buyers}
    \cup {Key("enterprise_follow_up", l, d) : l \in Enterprises, d \in Days}
    \cup {Key(t, c, 0) : t \in {"onboarding_missing", "payment_failed"}, c \in Customers}
    \cup {Key("domain_failures", c, d) : c \in Customers, d \in Days}
    \cup {Key(t, c, Month(d)) :
            t \in {"usage_70", "usage_90", "growth_upgrade"}, c \in Customers, d \in Days}

\* Purchases and mails are rows of two tables.
ASSUME RowsAssumption == Sales \cap MailKeys = {}

SaleStatus == {"pending", "sent", "failed", "skipped"}
Steps == {"idle", "sale", "reported", "abandoned", "enterprise", "onboarding", "usage",
          "domains", "select", "mail", "mailed"}

VARIABLES
    today,
    stage,       \* widget_leads.pipeline_stage
    followUp,    \* the lead's checkout_started_at or, with enterprise, next_follow_up_at: a day
    reminded,    \* abandoned_reminder_sent_at_utc is set
    usage,       \* the month's requests in percent of the limit
    failing,     \* the day of the customer's third domain failure
    sale,        \* delivery status and attempts of each purchase, the buyer's consent, and
                 \* how often the provider was told
    mail,        \* widget_automation_events.status of each key
    mailed,      \* how often the mail provider took each mail
    job,         \* what each run of the job and each webhook request is doing
    mishaps

worldVars == <<today, usage, failing, stage>>
leadVars == <<followUp, reminded>>
mailVars == <<leadVars, mail, mailed>>
outboxVars == <<worldVars, mailVars, sale, job, mishaps>>

\* now: the row in hand, if any.
OffDuty == [at |-> "idle", todo |-> {}, now |-> {}, outcome |-> "none"]
NewSale == [status |-> "none", attempts |-> 0, consent |-> FALSE, received |-> 0]

OutboxInit ==
    /\ today = 0
    /\ usage \in [Customers -> {0, 1}] /\ failing = [c \in Customers |-> NoDay]
    /\ stage = [l \in Buyers \cup Enterprises |-> "none"]
    /\ followUp = [l \in Buyers \cup Enterprises |-> NoDay]
    /\ reminded = [l \in Buyers |-> FALSE]
    /\ sale = [s \in Sales |-> NewSale]
    /\ mail = [k \in MailKeys |-> "none"] /\ mailed = [k \in MailKeys |-> 0]
    /\ job = [d \in Deliverers |-> OffDuty]
    /\ mishaps = 0

Mishap == mishaps < MaxMishaps /\ mishaps' = mishaps + 1
JobAt(d, step) == job[d].at = step
Turn(d, step) == job' = [job EXCEPT ![d].at = step]
Take(d, step, rows) == job' = [job EXCEPT ![d].at = step, ![d].todo = rows]
RowDone(d, step) == job' = [job EXCEPT ![d].at = step, ![d].now = {}]
Abort(d) == job' = [job EXCEPT ![d] = OffDuty]

-----------------------------------------------------------------------------
(* The order form and the world around the job.                             *)

InsertLead(l) ==
    /\ stage[l] = "none"
    /\ stage' = [stage EXCEPT ![l] = "new"]
    /\ followUp' = [followUp EXCEPT ![l] = IF l \in Enterprises THEN today ELSE NoDay]
    /\ UNCHANGED <<today, usage, failing, reminded, mail, mailed, sale, job, mishaps>>

\* The form may fail before this: the lead then stays 'new', with a session it does not know.
LinkCheckout(l) ==
    /\ stage[l] = "new"
    /\ stage' = [stage EXCEPT ![l] = "checkout"]
    /\ followUp' = [followUp EXCEPT ![l] = today]
    /\ UNCHANGED <<today, usage, failing, reminded, mail, mailed, sale, job, mishaps>>

\* The webhook or the cockpit takes the lead out of the job's sight.
LeaveStage(l) ==
    /\ stage[l] \in {"new", "checkout"}
    /\ stage' = [stage EXCEPT ![l] = "left"]
    /\ UNCHANGED <<today, usage, failing, mailVars, sale, job, mishaps>>

NextDay ==
    /\ today < LastDay
    /\ today' = today + 1
    /\ usage' = IF Month(today') = Month(today) THEN usage ELSE [c \in Customers |-> 0]
    /\ UNCHANGED <<failing, stage, mailVars, sale, job, mishaps>>

UseWidget(c, percent) ==
    /\ percent > usage[c]
    /\ usage' = [usage EXCEPT ![c] = percent]
    /\ UNCHANGED <<today, failing, stage, mailVars, sale, job, mishaps>>

FailDomain(c) ==
    /\ failing[c] # today
    /\ failing' = [failing EXCEPT ![c] = today]
    /\ UNCHANGED <<today, usage, stage, mailVars, sale, job, mishaps>>

-----------------------------------------------------------------------------
(* Purchases, delivered by the webhook that books them and by the job.       *)

BookSale(d, s, consent) ==
    /\ JobAt(d, "idle")
    /\ sale[s].status = "none"
    /\ sale' = [sale EXCEPT ![s].status = "pending", ![s].consent = consent]
    /\ Take(d, "sale", {s})
    /\ UNCHANGED <<worldVars, mailVars, mishaps>>

\* Mutant: the attempts are counted and not limited.
EverySale == {s \in Sales : sale[s].status \in {"pending", "failed"}}

DueSales == {s \in Sales : /\ sale[s].status \in {"pending", "failed"}
                           /\ sale[s].attempts < MaxAttempts}

SelectSales(d) ==
    /\ JobAt(d, "idle")
    /\ Take(d, "sale", DueSales)
    /\ UNCHANGED <<worldVars, mailVars, sale, mishaps>>

\* sendGa4Purchase: refused without consent, not attempted without credentials; a failed
\* attempt may have reached the provider.
Reported(s, outcome, received) ==
    /\ sale[s].consent <=> outcome # "skipped"
    /\ outcome = "sent" => received = 1
    /\ outcome \in {"pending", "skipped"} => received = 0

ReportSale(d, s) ==
    /\ JobAt(d, "sale") /\ s \in job[d].todo
    /\ \E outcome \in SaleStatus, received \in {0, 1} :
          /\ Reported(s, outcome, received)
          /\ sale' = [sale EXCEPT ![s].received = @ + received]
          /\ job' = [job EXCEPT ![d] = [at |-> "reported", todo |-> @.todo \ {s},
                                        now |-> {s}, outcome |-> outcome]]
          /\ IF outcome \in {"pending", "failed"} THEN Mishap ELSE UNCHANGED mishaps
    /\ UNCHANGED <<worldVars, mailVars>>

\* updateAnalyticsDelivery
Delivery(s, outcome) ==
    sale' = [sale EXCEPT ![s].status = outcome,
                         ![s].attempts = @ + IF outcome \in {"sent", "failed"} THEN 1 ELSE 0]

RecordSale(d, s) ==
    /\ JobAt(d, "reported") /\ s \in job[d].now
    /\ Delivery(s, job[d].outcome)
    /\ RowDone(d, "sale")
    /\ UNCHANGED <<worldVars, mailVars, mishaps>>

\* The update throws, before or after it took effect.  Inside the try block the catch then
\* records a failure; in the catch block the error ends the run.
RecordSaleThrows(d, s) ==
    /\ JobAt(d, "reported") /\ s \in job[d].now
    /\ Mishap
    /\ Delivery(s, job[d].outcome) \/ UNCHANGED sale
    /\ IF job[d].outcome = "failed" THEN Abort(d) ELSE job' = [job EXCEPT ![d].outcome = "failed"]
    /\ UNCHANGED <<worldVars, mailVars>>

SalesDone(d) ==
    /\ JobAt(d, "sale") /\ job[d].todo = {}
    /\ Turn(d, IF d \in Jobs THEN "abandoned" ELSE "idle")
    /\ UNCHANGED <<worldVars, mailVars, sale, mishaps>>

-----------------------------------------------------------------------------
(* Mails, queued by the job and the webhook.                                 *)

\* insertEvent: the unique key keeps a second row out.
Queue(keys) == mail' = [k \in MailKeys |-> IF k \in keys /\ mail[k] = "none" THEN "pending"
                                           ELSE mail[k]]

AbandonedKeys == {Key("abandoned_checkout", l, 0) : l \in
                    {b \in Buyers : stage[b] = "checkout" /\ followUp[b] < today /\ ~reminded[b]}}
EnterpriseKeys == {Key("enterprise_follow_up", l, today) : l \in
                    {e \in Enterprises : stage[e] = "new" /\ followUp[e] <= today}}
OnboardingKeys == {Key("onboarding_missing", c, 0) : c \in {x \in Customers : usage[x] = 0}}
UsageMail(c) == IF usage[c] >= 90 THEN "usage_90"
                ELSE IF c \in StarterPlan THEN "growth_upgrade" ELSE "usage_70"
UsageKeys == {Key(UsageMail(c), c, Month(today)) : c \in {x \in Customers : usage[x] >= 70}}
DomainKeys == {Key("domain_failures", c, today) : c \in
                    {x \in Customers : failing[x] # NoDay /\ failing[x] + 1 >= today}}

\* One of the five queue functions: a query, and an insert for each row; an error in between
\* ends the run.
QueueStep(d, step, keys, next) ==
    /\ JobAt(d, step)
    /\ \/ Queue(keys) /\ Turn(d, next) /\ UNCHANGED mishaps
       \/ \E some \in SUBSET keys : Queue(some) /\ Abort(d) /\ Mishap
    /\ UNCHANGED <<worldVars, leadVars, mailed, sale>>

QueueSignals(d) ==
    \/ QueueStep(d, "abandoned", AbandonedKeys, "enterprise")
    \/ QueueStep(d, "enterprise", EnterpriseKeys, "onboarding")
    \/ QueueStep(d, "onboarding", OnboardingKeys, "usage")
    \/ QueueStep(d, "usage", UsageKeys, "domains")
    \/ QueueStep(d, "domains", DomainKeys, "select")

\* queuePaymentFailureAutomation of the webhook.
QueuePaymentFailed(c) ==
    /\ mail[Key("payment_failed", c, 0)] = "none"
    /\ Queue({Key("payment_failed", c, 0)})
    /\ UNCHANGED <<worldVars, leadVars, mailed, sale, job, mishaps>>

-----------------------------------------------------------------------------
(* deliverPendingEvents                                                      *)

SelectMails(d) ==
    /\ JobAt(d, "select")
    /\ Take(d, "mail", {k \in MailKeys : mail[k] = "pending"})
    /\ UNCHANGED <<worldVars, mailVars, sale, mishaps>>

\* The request fails, or its answer is lost: the catch leaves the row pending.
SendMail(d, k) ==
    /\ JobAt(d, "mail") /\ k \in job[d].todo
    /\ \E taken \in {0, 1}, answered \in BOOLEAN :
          /\ answered => taken = 1
          /\ mailed' = [mailed EXCEPT ![k] = @ + taken]
          /\ job' = [job EXCEPT ![d] = [at |-> "mailed", todo |-> @.todo \ {k}, now |-> {k},
                                        outcome |-> IF answered THEN "sent" ELSE "pending"]]
          /\ IF answered THEN UNCHANGED mishaps ELSE Mishap
    /\ UNCHANGED <<worldVars, leadVars, mail, sale>>

FollowedUp(k) ==
    CASE k.type = "enterprise_follow_up" ->
            followUp' = [followUp EXCEPT ![k.of] = today + 1] /\ UNCHANGED reminded
      [] k.type = "abandoned_checkout" ->
            reminded' = [reminded EXCEPT ![k.of] = TRUE] /\ UNCHANGED followUp
      [] OTHER -> UNCHANGED leadVars

\* Mutant: a mail that fails is not tried again.
GiveUp(k, outcome) == mail' = [mail EXCEPT ![k] = IF outcome = "sent" THEN "sent" ELSE "failed"]

MarkMail(k, outcome) == mail' = [mail EXCEPT ![k] = outcome]

\* After a sent mail, the lead's row and the event's are updated.
RecordMail(d, k) ==
    /\ JobAt(d, "mailed") /\ k \in job[d].now
    /\ MarkMail(k, job[d].outcome)
    /\ IF job[d].outcome = "sent" THEN FollowedUp(k) ELSE UNCHANGED leadVars
    /\ RowDone(d, "mail")
    /\ UNCHANGED <<worldVars, mailed, sale, mishaps>>

\* One of these updates throws.  The catch turns the mail back to pending, whether or not an
\* update took effect; its own error ends the run.
RecordMailThrows(d, k) ==
    /\ JobAt(d, "mailed") /\ k \in job[d].now
    /\ Mishap
    /\ IF job[d].outcome = "sent"
       THEN /\ job' = [job EXCEPT ![d].outcome = "pending"]
            /\ FollowedUp(k) \/ UNCHANGED leadVars
       ELSE Abort(d) /\ UNCHANGED leadVars
    /\ UNCHANGED <<worldVars, mail, mailed, sale>>

MailsDone(d) ==
    /\ JobAt(d, "mail") /\ job[d].todo = {}
    /\ Turn(d, "idle")
    /\ UNCHANGED <<worldVars, mailVars, sale, mishaps>>

\* The process ends, or the run loses its database.
Stop(d) == ~JobAt(d, "idle") /\ Mishap /\ Abort(d) /\ UNCHANGED <<worldVars, mailVars, sale>>

JobStep(d) ==
    \/ \E s \in Sales : ReportSale(d, s) \/ RecordSale(d, s) \/ RecordSaleThrows(d, s)
    \/ SalesDone(d) \/ QueueSignals(d) \/ SelectMails(d)
    \/ \E k \in MailKeys : SendMail(d, k) \/ RecordMail(d, k) \/ RecordMailThrows(d, k)
    \/ MailsDone(d)

WorldStep ==
    \/ \E l \in Buyers \cup Enterprises : InsertLead(l) \/ LeaveStage(l)
    \/ \E l \in Buyers : LinkCheckout(l)
    \/ NextDay
    \/ \E c \in Customers : \/ \E percent \in {1, 70, 90} : UseWidget(c, percent)
                            \/ FailDomain(c) \/ QueuePaymentFailed(c)
    \/ \E d \in Checkouts, s \in Sales, consent \in BOOLEAN : BookSale(d, s, consent)

OutboxNext ==
    \/ WorldStep
    \/ \E d \in Deliverers : JobStep(d) \/ Stop(d)
    \/ \E d \in Jobs : SelectSales(d)

OutboxSpec == OutboxInit /\ [][OutboxNext]_outboxVars

-----------------------------------------------------------------------------
(* Properties                                                                *)

\* Every row and run holds what the code can write there.
OutboxTypeOK ==
    /\ today \in Days /\ mishaps \in 0..MaxMishaps
    /\ usage \in [Customers -> {0, 1, 70, 90}]
    /\ failing \in [Customers -> Days \cup {NoDay}]
    /\ stage \in [Buyers \cup Enterprises -> {"none", "new", "checkout", "left"}]
    /\ followUp \in [Buyers \cup Enterprises -> Days \cup {NoDay}]
    /\ reminded \in [Buyers -> BOOLEAN]
    /\ sale \in [Sales -> [status : SaleStatus \cup {"none"}, attempts : Nat,
                           consent : BOOLEAN, received : Nat]]
    /\ mail \in [MailKeys -> {"none", "pending", "sent"}]
    /\ mailed \in [MailKeys -> Nat]
    /\ job \in [Deliverers -> [at : Steps, todo : SUBSET (Sales \cup MailKeys),
                               now : SUBSET (Sales \cup MailKeys),
                               outcome : SaleStatus \cup {"none"}]]

Holding(s) == {d \in Deliverers : s \in job[d].todo \cup job[d].now}

\* The limit of attempts is read in one statement and counted in another.  Overlapping
\* deliveries, and answers lost after an update, can exceed it by one each and no more.
AttemptsBounded ==
    \A s \in Sales :
        sale[s].attempts + Cardinality(Holding(s)) < MaxAttempts + Cardinality(Deliverers) + mishaps

\* The provider learns of a purchase only with the buyer's consent, at most once per delivery
\* and mishap, and a purchase shown as delivered was delivered.
ReportsAreAccounted ==
    \A s \in Sales : /\ ~sale[s].consent => sale[s].received = 0
                     /\ sale[s].received <= sale[s].attempts + mishaps + Cardinality(Holding(s))
                     /\ sale[s].status = "sent" => sale[s].received > 0

\* A mail goes out again only for a run that had selected it, or after a mishap; and a lead that
\* counts as reminded of its checkout was sent the reminder.
MailsAreAccounted ==
    /\ \A k \in MailKeys : mailed[k] <= Cardinality(Jobs) * (1 + mishaps)
    /\ \A l \in Buyers : reminded[l] => mailed[Key("abandoned_checkout", l, 0)] > 0

\* However runs and requests overlap, and whatever is lost in between, purchases and mails go out
\* no more often than attempts and mishaps account for.
OutboxIsAccounted == AttemptsBounded /\ ReportsAreAccounted /\ MailsAreAccounted

\* Every purchase is delivered, refused, or given up after ten attempts, and every queued mail
\* is sent.
OutboxDrains ==
    /\ \A s \in Sales : sale[s].status # "none" ~>
           (sale[s].status \in {"sent", "skipped"} \/ sale[s].attempts >= MaxAttempts)
    /\ \A k \in MailKeys : mail[k] = "pending" ~> mail[k] = "sent"
=============================================================================
