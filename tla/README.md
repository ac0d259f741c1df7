# Verification of Residual Sports

The repository is a sports-prediction platform: a Next.js web application with its API routes
(`src/apps/web`), a queue worker (`src/apps/worker`), a small public read API (`src/apps/api`)
and shared packages (`src/packages/{db,llm,scorer,reddit,tiktok}`) over one Postgres database.
What is hard to test and expensive to get wrong in it is modelled here: the money path of the
widget business, driven by Stripe webhooks and continued by the customer's account; the jobs that
write matches, predictions, odds and their histories concurrently; and everything that sends,
publishes or stores something for good, from outreach mails to backups.

    tlc -config MCWidgetStories_orders.cfg MCWidgetStories
    tlc -config MCServices_live.cfg MCServices
    tlapm WidgetBillingProofs.tla

## 1. The system

All state that survives a process is in Postgres (`src/packages/db/migrations/postgres`). Web
requests and worker jobs run concurrently with each other and, while a deployment rolls, with the
ones of the version before. The webhook, the account routes, the score and fixture jobs and the
revenue job use no transactions: every statement commits on its own. Transactions are used by
`upsertStoredPrediction`, the outreach and marketing approvals, the social connections and the
migrations.

| Component | State | Operations | Talks to |
|---|---|---|---|
| Widget billing webhook (`api/widgets/stripe/webhook/route.ts`) | `widget_billing_events` (claims), `widget_leads`, `widget_customers`, `widget_customer_domains`, `widget_invoices` | one handler per Stripe event type, behind a claim | Stripe, mail provider, analytics, lead cockpit |
| Stripe client and annual schedule (`lib/widget-billing.ts`) | Stripe's schedules | create and configure a schedule, cancel, resume | webhook, account |
| Widget account and access (`api/widgets/account`, `api/admin/widget-customers`, `lib/widget-access.ts`) | the customer row, domains, `widget_usage_monthly`, `widget_usage_daily` | rotate key, add or remove a domain, cancel, meter a request | Stripe, webhook |
| Order form (`api/widgets/access-request`) | `widget_leads` | create a lead, a Stripe customer and a checkout session | Stripe, webhook |
| Lead cockpit (`api/admin/widget-leads`) | `widget_leads` | set the pipeline stage | webhook |
| Revenue operations (`jobs/run-revenue-operations.ts`) | `widget_revenue_events`, `widget_automation_events` | deliver purchases, send automation mails | webhook, analytics, mail provider |
| Job queue worker (`worker.ts`) | Redis queues, `job_attempts` | schedule, run, retry and record jobs | every job |
| Matches and prediction archive (`jobs/generate-upcoming-sport-api-predictions.ts`, `jobs/sync-*.ts`, `packages/db/src/postgres.ts`) | `matches`, `match_data_snapshots`, `predictions`, `prediction_revisions` | predict, store scores, store fixtures | sports data provider, language model |
| Bookmaker odds (`jobs/refresh-upcoming-odds.ts`) | `match_odds`, `odds_refresh_checks`, snapshots | store fixtures, list what is due, ask, record | odds provider, sports data provider |
| Editorial outreach (`jobs/*outreach*`, `api/admin/outreach`) | `editorial_outreach_drafts` | discover, approve, send | mail provider |
| Marketing publisher (`marketing-publishers.ts`, `api/admin/marketing`) | `marketing_campaigns`, `marketing_posts` | generate, approve, reject, publish | social networks |
| Social connections (`packages/tiktok`, `packages/reddit`) | `social_connections` | connect, refresh a token under a row lock, disconnect | social networks, marketing |
| Newsletter (`api/newsletter`, `api/admin/newsletter`) | subscribers, campaigns, recipients | subscribe, unsubscribe, queue, send | mail provider |
| Backup (`jobs/export-postgres-backup.ts`, `backup-storage.ts`) | `backup_artifacts`, `backup_verifications`, stored objects | export table by table, store, fetch back, restore drill, record | object storage |
| Widget account sign-in (`api/widgets/account/auth`) | `widget_customer_login_tokens` | mail a link, spend it for a session | account, mail provider |
| Public API and cache (`apps/api`) | a cache with a TTL | read | web |
| Admin login (`lib/admin-*.ts`) | counters in memory | log in, limit | web |
| LLM client, scorer, web read models, migrations | none of their own | pure functions and I/O | - |
| Tennis rankings and countries (`lib/tennis-rankings.ts`, `lib/tennis-country-resolver.ts`) | `tennis_ranking_snapshots`, the country table, in-process caches | read through, store unless older | public pages |

What makes each of them hard, and what makes it correct:

* **Webhook.** Stripe delivers at least once, in any order, and again when a handler is slow; a
  handler is a dozen awaits long and can fail, or die, at each. Correct: an event is worked on
  once, access follows payment and nothing else, a buyer has one row, an invoice is mailed once,
  an error only delays.
* **Prediction archive.** Overlapping runs check, ask and write; three jobs write the status of
  the same match from lists they fetched earlier; a fixture's writes fail one by one. Correct: one
  current prediction per match and profile, nothing that was current is lost, every fixture is
  predicted in the end, a result stays a result.
* **Widget account.** Count-then-insert limits and read-then-write cancellation race the webhook
  and each other. Correct: never more domains than the plan has, never more metered requests than
  the limit, the stored key is the one the customer was given last.
* **Annual schedule.** Two calls that must both happen, retried from the first one's leftovers.
* **Revenue operations, outreach, marketing, newsletter.** "Send, then record": a crash in between
  repeats the effect or strands the row; two senders race each other.
* **Social connections.** A rotated token that is not stored is lost; a late failure is recorded for
  whatever connection there is by then.
* **Job queue.** A finished job whose record fails is run again.
* **Odds.** Candidates are listed once and worked through later, with a limit, a quota and three
  writes per match. Correct: what a check says is backed by what is stored, nothing due is left out,
  nothing is asked about more often than the intervals allow.
* **Backup.** Tables are read one by one while everything else writes. Correct: a backup that is
  marked verified can be fetched and holds what was there.
* **Sign-in, admin login, API cache.** A limit that counts and inserts in two statements, a link
  that is opened twice, counters with fixed windows in one process; staleness within the TTL.

`PROJECT.json` lists these hazards at their lines with the properties that cover them; section 6 says
what no property covers.

## 2. Modules

| Module | What it is |
|---|---|
| `WebhookInbox` | abstract: what the webhook promises for one event (unsent, pending, working, handled, dropped) |
| `WidgetBilling` | the webhook, Stripe's side of a subscription, and the cockpit's PATCH |
| `WidgetBillingProofs` | its types, its safety and the refinement of `WebhookInbox` |
| `WidgetContract`, `WidgetContractProofs` | minimum term, annual schedule, cancellation and resumption, with Stripe's calendar; the release to monthly and the term |
| `WidgetAccount`, `WidgetAccountProofs` | the customer's row, sites, key and meter; types and the meter's bounds |
| `CustomerSignIn` | the links that sign a customer in |
| `RevenueOutbox` | the order form's leads, purchases and mails to be delivered, and the hourly job |
| `PredictionBook` | abstract: the current prediction and the archive, changed together by one `Store` |
| `PredictionArchive` | the prediction, live-score and fixture jobs and the storing transaction |
| `PredictionArchiveProofs` | its types, its safety and the refinement of `PredictionBook` |
| `OddsRefresh` | the odds job |
| `JobAttempts` | the queue's attempts, lost locks and retries, and the rows that record them |
| `EditorialOutreach`, `EditorialOutreachProofs` | prospects, drafts, approval, suppression and sending; types and safety |
| `MarketingStudio`, `MarketingStudioProofs` | review and publication of campaigns and posts; types and safety |
| `SocialConnections` | the one account per network and its tokens |
| `NewsletterIssue` | campaigns, recipients and the request that sends them |
| `BackupExport` | the export and its verification |
| `AdminLogin` | the limit on failed logins |
| `WorkerProofs` | the proofs about `RevenueOutbox`, `JobAttempts`, `SocialConnections` and `NewsletterIssue`, and the types of the whole worker |
| `ServicesProofs` | the proofs about `BackupExport`, `OddsRefresh`, `CustomerSignIn` and `AdminLogin`, and the limits of the whole site |
| `MCWidgetBilling`, `MCWidgetStories`, `MCWidgetContract`, `MCWidgetCustomer`, `MCWorkerJobs`, `MCServices` | instances for TLC |

Components that write the same rows are composed statement by statement: `WidgetBilling` holds the
webhook beside the cockpit, `WidgetContract` the webhook beside the account's cancel and resume,
`WidgetAccount` has the webhook's statements on the same row as `Billing...` actions that happen at
any time, `RevenueOutbox` has the webhook that books a purchase beside the job that delivers it.
Components that share no table are put side by side in one instance: `focus` in `MCWidgetCustomer` and
`MCWorkerJobs` and `scene` in `MCServices` say which of them a behaviour is about, and the others rest.
No interleaving is lost by that, since neither reads what the other writes. `MCWidgetStories`
tells four stories of one module in the same way, by what is generated and which faults may occur.

### WidgetBilling

`request[r]` is a web request: the next statement (`at`), the event it serves, and the local
variables that are read before an await and used after it (`seen` is the lead status read at the
start of the activation, `row` and `key` are the customer row and key it works with). `Claim` is
the insert into `widget_billing_events` with its early 200 for a known event, `FirstStep` the
dispatch of `handleStripeEvent`, and from there each SQL statement and each provider call is one
action: `ReadLead`, `LookupCustomer`, `UpdateCustomer`, `ReplaceKey`, `InsertCustomer`,
`EnsureDomain`, `SendAccessEmail`, `MarkLeadWon`, `RecordActivation`, `UpsertInvoice`,
`SetCustomerStatus`, `QueuePaymentFailure`, `RecordPurchase`, `ClaimInvoiceMail`,
`SendInvoiceEmail`, `Respond`. The unique indexes of the migrations are `Clashes` and `EmailTaken`;
a refused row is `RefuseDuplicate`.

Where `activatePaidWidgetSubscription` returns null, the rest of the handler goes on without a
booking: `Activates` holds of a paid invoice whose lead has a direct plan (`Direct`), and stands for
all of its early returns and for an invoice without a subscription. A status that `handleStripeEvent`
names in no branch leaves the row as it is (`NoBranch`; `paused` stands for them all). `SettleCheckout`
is Stripe's event for a checkout that is paid later, which the handler treats like the first one.
The order form looks at no other customer, so `DomainTaken` can refuse an order that is paid: `Refused(l)`
says that the row of another buyer has the domain of lead `l`.

The catch block is `Withdraw`: it deletes the claim and answers 500 (a failed invoice mail clears
`delivery_sent_at_utc` first). Faults are `Fail` (a statement or call throws), `FailUnclean` (so
does the clean-up, whose error the code swallows), `FailAfterAccessEmail` (the provider took the
mail, the answer was lost), `Crash`, and `DeliverAfterTimeout` (Stripe delivers an event whose
handler is still at work). `SetPipelineStage` is the cockpit. The actions of Stripe
(`CompleteCheckout` to `CancelSubscription`) generate events in the orders Stripe can; delivery is
in any order.

### PredictionArchive

`run[r]` is one execution of the prediction job: fetched fixtures still to do, fixtures counted
against the limit, and for the current one the profiles not yet looked up, the ones found missing,
and the answer it waits for. `write[a][p]` is the transaction that stores profile `p` of answer
`a`: `TakeLock` (begin and advisory lock), `FindRow` (the select), `Commit` (update or insert, the
revision, commit). Other statements inside the transaction are visible to nobody before the commit
and change nothing if it rolls back, so they need no steps of their own. The writes of one fixture
are started together and awaited with `Promise.all` (`Awaited`): after a failure the run goes on
while the others continue alone. `scorer[s]` and `syncer[s]` are the other two jobs; each fetches its list first and works
through it afterwards, which is how a stale status can be written. The order in which a run takes its fixtures
(`prioritizeFixturesForCoverage`) is left open, so the results hold for any order.

A row's random id is represented by `first`, the answer that created it.

### WidgetAccount, WidgetContract, CustomerSignIn

`visit[v]` is one HTTP request with what it has read (its row, a count, the month's use), so it may be
stale when it acts. A widget request looks up its key and site and is metered by one conditional
upsert; account and cockpit requests rotate the key, add and remove sites and change the plan, each
statement a step. `MeterWithinLimit` speaks of the largest limit the row has had: a limit can be
lowered below what is already used.

`WidgetContract` has Stripe's subscription with its price, its paid period and its schedule;
`configureAnnualToMonthlySchedule` is two calls (create from the subscription, then configure two
phases) that any error can separate. Time is counted in months; `PassTime` is Stripe's clock, which
ends periods, phases and schedules.

A request for a sign-in link finds the customer, counts, inserts and mails; `OpenLink` is the one
statement that finds and spends a link. The limit is exceeded by the requests that overlap, and by no
more (`LinksAreLimited`).

### RevenueOutbox, JobAttempts

`job[d]` is a run of the job, or a webhook request that books a purchase and delivers it at once. Each
row is selected, delivered and recorded in three steps; the five queue functions are one step per
query, with errors after any part of their inserts. The unique key of a mail is its dedupe key, kept as
a record of type, subject and period.

`queued[j]` is BullMQ's job, `hand[h]` a handler at work. A lost lock gives the job to another handler
under the same attempt number, so that two handlers write the same row of `job_attempts`.

### EditorialOutreach, MarketingStudio, SocialConnections, NewsletterIssue

All four are "claim, do, record". A draft or post is claimed by an update that looks at its status, or,
in `publishMarketingCampaign`, is not (see section 4). The triggers of the migrations that guard
sending and publication are guards of the step that writes the status (`Gate`; the approval `Claim`
looks at). Faults are lost requests, lost answers, failing statements in the catch block, and
processes that end. `overlapped` remembers that two publications ran at a time: several guarantees
hold only without that, and `RepostNeedsMishap` counts exactly what it costs.

### OddsRefresh

`refresh[j]` is an execution of the job: fixtures, candidates, the catalogue of active keys, the keys
that failed, the candidates with odds, and the time taken for the current one before its three writes.
`Candidates` is the query of `listMatchesDueForOddsRefresh`: a match is due when its last check is older
than the daily interval, or once in the minutes before its kick-off, and lies within the days looked
ahead; the earliest come first, up to the limit. The query's condition on the status is left out: a match
that has not begun has no final status. The upserts of fixtures run at once and go on when one of them fails (`StoreFixture`). A
spent quota, and a catalogue answer that does not name it, end the execution (`ReadCatalogue`).

### BackupExport

`Insert`, `Link` and `Delete` are all other writers. A row has the rows it belongs to, which take it with
them when they are deleted (`Parents`, on delete cascade), and the ones its columns name and may lose
(`named`, on delete set null). `Link` is an update of those columns: a won lead or an invoice is given its
customer. `ReadTable` copies one table, each row with what it names at that moment; `before` and `kept` are
history: the rows at the start, and those of them still there when the last table was read. The stored
object may differ from the file that was sent; `Compare` fetches it back. The drill restores into
temporary tables without foreign keys, so it accepts any file.

### AdminLogin

One login is one step, since nothing is awaited between the check and the count. `failed` is history:
the moments of a key's failures since its last success, which `FailuresAreBounded` counts over every
window, not only those the code keeps.

## 3. Runs

Sizes are those TLC reports.

| Run | Instance | Distinct states | Shows |
|---|---|---|---|
| `orders` | `MCWidgetStories`: one payment with two event objects under every kind of fault; the life of a subscription beside the cockpit; two orders of one buyer and one of a colleague for a domain of the first; a payment for a plan that is not sold directly | 649,118 | `TypeOK`, `OneHandlerPerEvent`, `InvoiceMailedAtMostOnce`, `AccessOnlyAfterPayment`, `LookupIsUnambiguous`, `WonLeadIsServed`, `HandledPaymentIsBooked`, `DeactivatedByItsOwnSubscription`, `WebhookKeepsLeadWon` |
| `live` | `MCServices`: two orders of one buyer and one of a colleague for the same domain, under fair delivery; the odds of two matches; four rows, their references and two attempts of the backup; sign-in; admin login | 392,305 | `ImplementsInbox`, `EveryEventIsHandled`, `PaymentLeadsToAccess`, `StoredKeyWasMailed`, `OddsAreAccounted`, `DueIsChecked`, `VerifiedIsComplete`, `SignInsAreLimited` |
| `customer` | `MCWidgetCustomer`: two requests on one row around a turn of the month; one order through checkout, renewal, cancellation and resumption | 2,907,456 | `AccountTypeOK`, `MeterWithinLimit`, `MeterAddsUp`, `TermIsKept`, `ReleasesToMonthly` |
| `worker` | `MCWorkerJobs`: every worker job and administration request that writes, two of a kind at a time | 1,063,859 | `WorkerTypeOK`, `OneRowPerProfile`, `AcknowledgedIsArchived`, `ImplementsBook`, `OutboxIsAccounted`, `RejectedNeverGoesOut`, `PublishedIsApproved`, `NothingIsStranded`, `RepostNeedsMishap`, `ApprovedIsAllowed`, `SendingIsHeld`, `RetriesAreAudited`, `ConnectionIsUsable`, `NewsletterIsAccounted` |
| `progress` | `MCWorkerJobs` with fairness: archive, queue and outbox | 138,501 | `FixturesArePredicted`, `ResultSettles`, `EveryJobEnds`, `OutboxDrains` |
| `canceled` | payment, update and deletion, no faults | violated | `CanceledIsDeactivated` |
| `unmailed` | one payment, an invoice mail that fails together with its clean-up | violated | `PaidInvoiceIsMailed` |
| `limit` | a buyer who returns for another plan | violated | `LimitMatchesPlan` |
| `renewal` | a yearly order the cockpit has moved on | violated | `ContinuesMonthly` |
| `term` | a yearly and a monthly order of one buyer | violated | `TermIsKept` |
| `duplicated` | one campaign, two publications, no faults | violated | `NotDuplicated` |
| `unrecorded` | one job, one failing statement of its record | violated | `EveryAttemptIsStored` |

**Bounds.** Two requests (two runs, two senders) are what a race needs; claims, locks and unique keys
are per event, per row or per match and profile, and the theorems below cover any number. Each event
object is generated once and delivered any number of times. Faults have a budget per behaviour
(`MaxFaults`, `MaxMishaps`, `MaxSlips`, `MaxLapses`, `MaxBreaks`, `MaxErrors`, `MaxLosses`, `MaxLost`), so that every fault meets
every step; where two kinds can interact (a failed publication whose catch block fails too, a retry
after a lost lock) the budget is two or more. In `worker` the archive's faults share one
(`MostFaults`); its theorems hold for any budget. `Keys`, `Rows`, `Answers`, `Links` and `MaxTokens` bound
counters that are unbounded in the code and are large enough for the chosen events. A year is two
months (`Year`) and the calendar ends after two of them (`Horizon`): a term, its end, the first renewal
and the month after it are all there. `MaxSubscriptions` is one where `TermIsKept` is to hold and two
where it does not. `MaxAttempts` is one and `MatchLimit` is one, so that the limits are met. A
window of two moments and a link's life of three are enough to be before, within and at the end of
each. `LastDay`, `LastMoment`, `EndOfTime` and the odds' `Horizon` end a behaviour's time; every
interval of the code is shorter.

Stories leave out combinations, each named in its module. In `MCServices` three payments that come in
together meet no fault, where two meet an error or a lost answer; a second execution of the odds job
overlaps once, where one match is soon, and two matches that compete for the limit meet no error; others
write to the exported tables while the first attempt of the backup reads, and a second attempt follows one
whose object came back damaged; the process of the admin login restarts where all keys are blocked. In
`MCWidgetStories` a story begins with the faults that do not belong to it
spent, and the event of a pause meets no fault. In `MCWorkerJobs` mails about customers are sent by
one run without mishap, a campaign of two posts is published without faults, and the provider withholds
the result of one match, before the first fault. Safety does not rest on these cuts:
the theorems of section 5 cover any combination. Symmetry is used for requests, runs, keys and profiles in runs without
liveness, where the specification treats them alike.

**Deadlock.** Behaviours end: no event is left to generate, no answer, no moment. All configurations
set `CHECK_DEADLOCK FALSE`; that nothing stops early is what the liveness properties say.

**Fairness.** Billing: weak fairness of each request's own steps (a Node process runs what is
ready) and of delivery of each event (Stripe retries until it sees a 200). Worker: weak fairness
of starting the jobs (the queue repeats them), of every step of a running job, of a
transaction's steps (the lock is given to a waiting transaction when its holder ends), and of the queue's
own detection of lost locks (`Recover`). Odds: the same for the job, and the provider resets its quota.
Nothing is assumed about payments, cancellations, matches being played, faults, or how long the provider
lists a result: where a property needs that it goes on doing so (`ResultSettles`), or that no other buyer
keeps a domain for ever (`EveryEventIsHandled`, `PaymentLeadsToAccess`), its formula says so.

**Mutants.** Every property has a plausible bug that breaks it (a dropped row check, a claim that
stays after an error, a lookup without the lock, tables read in another order, a window that ends where
it should begin...); the mutated forms stand before the definitions they change, marked as mutants.

## 4. Where the code and its documentation differ

* `docs/widget_billing.md:44`, "canceled or unpaid subscriptions are deactivated": an update or a
  payment event that arrives after the deletion activates the row again (`canceled`).
* `docs/widget_billing.md:46`, "For every `invoice.paid` event, the billing email receives a
  localized message": the flag that claims the mail is cleared in a catch block. When the mail and that
  statement fail together, the claim of the event is still withdrawn; its redelivery finds the flag,
  sends nothing and is answered 200 (`unmailed`).
* `src/apps/web/src/lib/widget-plans.test.ts:5`, sales and enforcement limits in one plan source;
  `widget-checkout.tsx:29` sells 250k requests with the growth plan: the update branch changes the
  plan and leaves `monthly_limit` (`limit`).
* `docs/stable_backend_architecture.md:45-55`, "Every job attempt stores: ... status; ... error details on
  failure": the statement that announces an attempt is outside the try block, the one that records a
  failure inside the catch block; an attempt for which either throws is counted by the queue and has no
  row, or one that says it is still running (`unrecorded`). `RetriesAreAudited` says that these are the
  only exceptions as long as no lock is lost, and that no success is counted without its row.
* `docs/widget_billing.md:23`, "one monthly phase follows, and the schedule then releases the
  subscription so it continues monthly": a lead that does not know its schedule has it configured again
  by the first invoice after the release, at the annual price (`renewal`).
* `docs/widget_billing.md:48`, the cancellation "must enforce the stored `minimum_term_ends_at_utc`": the row
  of a buyer with two subscriptions pairs the term of one with the schedule of the other (`term`).
* `docs/marketing_agent.md:30`, "posts that were already published are not duplicated": two publications
  that overlap read the same posts before either marks them (`duplicated`).

## 5. Proofs

The assumptions are the named `ASSUME`s of the specifications: events carry a type and a lead,
an invoice event the invoice's lead, null values are none of the values they stand beside, budgets
are naturals or functions to them, limits, windows and attempts are positive, a table that is referenced
is exported before the one that references it, a purchase is not a mail, and what is counted (jobs,
hands, requests for links, links, matches, orders) is finite. TLC evaluates each in a passing run. No
theorem depends on the number of leads, events, requests, rows, matches, runs, tasks, posts, drafts,
people or faults. Two theorems have a hypothesis more, which they name: `OneOrderKeepsItsTerm` and
`StoredKeysAreMailed`.

Every proof is of one form: an invariant that a step preserves is spelled out actor by actor (what a
request at this step has read, and what is still true of it), a lemma per action shows that the actor
that moves and all others keep it, and the property follows. Where a module proves several things, each
rests on the ones before it.

**WidgetBilling** (`WidgetBillingProofs`). `TypeOK` is not
inductive: a request past `LookupCustomer` must have a row, one past `ReplaceKey` a key. `Typed`
adds that as `RequestOK`, and `TypeCorrect` follows. On top of it:

* `EventsAreHandledByOneRequest`, `WebhookImplementsInbox`: `Claimed` says that the event of a busy
  request is claimed and unhandled and belongs to no other request. `InboxStep` lists what a step
  can do to claims and requests; the refinement is a case split over it.
* `AccessFollowsPayment`: `Collected`, every request working on a payment and every row belong to a
  subscription with a paid invoice.
* `CancellationIsItsOwn`: `Canceled`, which also knows that a deletion event exists only for an ended
  subscription and that an ended subscription stays so.
* `OneRowPerLead`: `RowsOfLeads`, an address has one row and a subscription's row has its buyer's
  address. The second half is what the code relies on without saying it.
* `OneMailPerInvoice`: `Mailing`, the flag is set before the mail and the sender between the two is
  unique.
* `WonMeansServed`, `HandledMeansBooked`: `Serving` and `Booking` describe, for a request at each
  step, which effects it has already had; `Growing` shows none of them is undone.
* `WonStaysWon`: the only statement of the webhook that lowers a lead's status looks at it in the
  same statement.
* `StoredKeysAreMailed`, for the faults of the `live` run (`RetriedErrorsOnly`: errors and lost answers, in any
  number) and one event per payment (`OnePaymentPerLead`): a key that was not mailed is owed by a
  payment of the row's buyer (`Owes`), which is not handled, its lead not won, and whose request, past
  storing a key, carries this one. `WonOnce` says why the retry replaces the key: the status it has read
  is 'won' only if the activation is over. Both hypotheses are needed (section 6).

**PredictionArchive** (`PredictionArchiveProofs`).
`IInv` adds to the types: the lock has one holder (`LockExclusive`); what a transaction found is
still so at its commit (`FoundIsCurrent`); an answer not yet stored is in no table
(`AnswersAreFresh`); a row keeps the match of the answer that created it (`RowsKnown`). The
invariant was checked by TLC on an instance of two runs and two profiles before it was proved. `EveryStep` reduces
the next-state relation to asking, locking, finding, committing and steps that leave the archive
alone.
From it: `OneRow`, `Acknowledged`, and `ArchiveImplementsBook`, where a commit, confirmed or not,
is `Store` and every other step a stutter.

**WidgetAccount** (`WidgetAccountProofs`). `AccountTypeCorrect`; `MeterStaysWithinLimit`: the upsert compares
with the limit its request has read, which is at most the largest the row has had, so the invariant
carries that of every visit on its way; `AnsweredIsMetered`: between the meter and the answer a request
is counted once on each side.

**WidgetContract** (`WidgetContractProofs`). `ContractInv`: a schedule has one phase or two that follow one
another, the second at the monthly price, and one that is configured and releases has both; what a request
carries between its calls is of that form too. `SchedulesReleaseToMonthly` follows for any number of orders,
requests and retries. `TermInv` says of the one order of a buyer that whatever may end its subscription (the
date, the paid period of an annual price, the last phase, the date a request has read) lies beyond the
term. Hence `OneOrderKeepsItsTerm`, whose hypothesis `MaxSubscriptions = 1` is what the code needs: `term`
shows the violation with two. `Horizon` bounds the calendar of the model, for any bound.

**RevenueOutbox** (`WorkerProofs`). `OutboxInv` counts what can still happen: deliveries of a purchase that are
under way beside its attempts (`SaleOK`), and copies of a mail that runs have selected, hold, or may select
again (`Copies` in `MailOK`), so that a step moves a copy from one to the other and only a mishap adds
some: once for each run. From it: `OutboxTypeCorrect`, `OutboxStaysAccounted`.

**JobAttempts** (`WorkerProofs`). `JobsInv`: an active job is locked by one handler; a handler works on
the attempt the queue counts next, or its lock was lost (`AtWork`); handlers that have not begun are counted
against attempts, lost locks and the lock (`Counted`); one that is about to throw has its row, or is known to
have failed to write it (`unwritten`, history), and a step that counts no attempt leaves the rows of the
counted ones alone (`RecordsKept`). From it: `JobsTypeCorrect`, `AttemptsAreAudited`.

**SocialConnections** (`WorkerProofs`). `SocialInv`: the row's lock is held by exactly the request that refreshes
it; a token on its way is known to no row and no other request; without losses and disconnections the
tokens in use are valid (`TokensOK`). From it: `SocialTypeCorrect`, `ConnectionsStayUsable`.

**NewsletterIssue** (`WorkerProofs`). `NewsInv`: what the loop has to do, has in hand and has done are
apart, and who is left 'queued' or 'failed' is known to the request (`ToDo`, `Remaining`, `Reached`). From it:
`IssuesAreAccounted`.

**EditorialOutreach** (`EditorialOutreachProofs`). `OutreachTypes`; `ApprovalNeedsConsent`: an approved draft
has its approval and its prospect's consent, which suppression takes away together;
`ClaimsAreExclusive`: a draft that is being sent is in one sender's hands.

**MarketingStudio** (`MarketingStudioProofs`). The invariant `StudioInv` joins, for every publisher, what it has
read and may still do (`PublisherOK`, `RecordOK`), for every post whether it is untouched, fresh or cold
(`Untouched`, `Fresh`, `Cold`), that what is `publishing` is in somebody's hands unless a process has ended
(`BusyPosts`, `BusyCampaigns`), and that without overlap one publisher is at work (`Alone`).
From it: `RejectionHolds`, `PublicationNeedsApproval`, `CatchBlocksCleanUp` and `RepostsAreMishaps`.

**The worker** (`WorkerProofs`). `MCWorkerJobs` puts all of these side by side; `WorkerStep` shows that a step
of the worker is, for each part, a step of it or a stutter, so every invariant above holds there, and
`WorkerTypeCorrect` collects the types of all tables and processes.

**BackupExport** (`ServicesProofs`). `VerifiedIsComplete` says nothing of an attempt that is reading. The
invariant `BackupInv` adds: what is left of the start has been copied from every table already read
(`ReadingCopies`), whatever a copied row references that was there at the start is in the file
(`FileIsComplete`), and what is stored is the file, intact once compared (`StoredIsFile`). The step that
matters is `ReadKeeps`: foreign keys hold in the database, so what a row references when it is copied is
there, lies in a table already read, and was copied if it is as old as the start; a row of the start that
is copied has its cascading parents from the start too (`StartIsKnown`), so only a later update
(`LinkKeeps`) makes it reference something newer. From it: `VerifiedBackupIsComplete`.

**OddsRefresh** (`ServicesProofs`). `OddsInv`: an execution takes up one match at a time, and has stored odds
and snapshot before it says they are available (`ExecutionOK`); while executions have never overlapped, a
candidate it has listed may still be checked, since nothing newer than its own time is written beside it
(`AloneOK`, `Spaced`). From it: `OddsStayAccounted`.

**CustomerSignIn, AdminLogin** (`ServicesProofs`). Both count a set over every window of the limit's length,
whereas the code looks at the one that ends now, or at its own counter's. `SignInInv`: the links of the
last window and the requests that have counted and not yet inserted are within the bound together
(`RoomOK`), which covers an older window as it can only lose links. `LoginInv`: the failures in a window
are those of the counter that is running, and one round more if that counter began within the window, and
a round for each restart (`CountOK`). From them: `LinksAndSessionsAreLimited`, `FailedLoginsAreLimited`, and
`SiteIsLimited` for the composition in `MCServices`.

**Only model-checked.** All liveness (`EveryEventIsHandled`, `PaymentLeadsToAccess`, `FixturesArePredicted`,
`ResultSettles`, `EveryJobEnds`, `OutboxDrains`, `DueIsChecked`), which is beyond the provers. Every
safety property of the passing runs is proved, two of them under the hypotheses named above. The properties
of section 4 are refuted by their runs; `TermIsKept` is both, proved for one order and refuted for two.

## 6. What is not claimed

* `StoredKeyWasMailed` holds for one event object per payment under retried errors. With two event objects
  for one payment, a crash between storing and mailing a key, a delivery that is answered while the first
  handler is still at work, or a lead set to active in the cockpit before the retry, the stored key can be
  one nobody was mailed.
* `EveryEventIsHandled` fails after a crash, a failed clean-up or a delivery during a slow handler:
  the claim stays and the redelivery is answered 200. `WebhookInbox` names that stage `dropped`.
* `EveryEventIsHandled` and `PaymentLeadsToAccess` excuse an event whose domain another buyer's row has for
  ever: the order form does not look, the invoice is paid, `widget_customers_domain_unique_idx` refuses the
  row on every retry, and nobody is told.
* `InvoiceMailedAtMostOnce` counts mails whose answer arrived. A mail the provider took before the
  connection broke is sent again.
* A stale fixture or prediction job can take a final match back to `scheduled` until the next pass
  over the live scores; `ResultSettles` says it ends, not that it never happens, and only of a result that
  the provider goes on listing with its scores. The job polls `livescore/all`, the active and recent games, and
  skips a final without scores: a result that is missed, or overwritten, when the list drops it stays so.
* `DueIsChecked` says that a check is written, not that odds are found: an error or an unsupported
  match counts as checked until the next interval. A job that failed for every key throws to be
  retried, and its retry finds nothing due; without the catalogue no tennis match has a key for a day; a
  provider that never names its quota pauses the refresh each time.
* `AvailableIsBacked` lets overlapping executions leave the older odds in place: they are stored without
  comparing their times.
* A verified backup may hold a row without what it references: a row newer than its start, or an older one
  that was linked to a newer row meanwhile (`markLeadWon` updates `widget_leads.customer_id`, and
  `widget_customers` is read first). A restore with foreign keys would refuse it. The row counts kept with a verification are the database's at that
  moment.
* `RetriesAreAudited` is about jobs that never lost a lock: after a lost one two handlers write the same row.
  `ConnectionIsUsable` excuses an account whose rotated token was lost by a failing update, and
  `ReleasesToMonthly` one whose schedule was created and never configured; PROJECT.json lists both hazards
  without a property.
* `publish_instagram_carousel` of `api/admin/marketing` publishes without a row of `marketing_posts`, so
  `PublishedIsApproved` does not speak of it.
* `RepostNeedsMishap` and `OutboxIsAccounted` count duplicates, they do not exclude them.
* `FailuresAreBounded` allows a key nearly twice the limit around the end of a window, and the limit
  again after each restart; a success clears the history, of the address too.
* The queue's limit of a hundred mails a run is above the instances: in the code a hundred mails that
  always fail would keep later ones waiting.

**Not modelled.** The language-model client, the scorer, the public API and its cache, the tennis
ranking and country caches (read-through, nothing is decided from them), the read models and
pages of the web application, and the migrations' runner: pure functions, rendering, queries that change
nothing, floating-point arithmetic, and one transaction per file. Their results are nondeterministic
choices in the models that use them. Inside the modelled components: the wording and layout of mails
and posts, parsing of providers' answers, signatures and encryption, the order confirmation mail (its
errors are caught), an unconfigured mail provider, a change of the configured language model, the repeat
schedules of the queue. Stripe, the data, odds and mail providers, the social networks, the language
model's answers, the clock and the ends of processes are external: modelled from how the code uses
them. Most of the repository's lines are pages and read models, so the models cover a small share
of its text and most of its writes.

## 7. What is left

1. A change of the configured model, which makes `predictionProfileExists` (by provider and name) and
   the row lookup (by model id) disagree.
2. The order form's own steps (customer, session, link) with Stripe's errors, beside the webhook of an
   order whose lead was not linked.
3. Generation of marketing campaigns and the figures of published posts; newsletter campaigns sent by
   more than one request.
4. Worth proving next: how far a buyer with two orders keeps the term of each, and `StoredKeyWasMailed` with
   the cockpit's stages that do not win a lead among the steps.
