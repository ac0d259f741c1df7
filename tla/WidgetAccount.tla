--------------------------- MODULE WidgetAccount ---------------------------
(***************************************************************************)
(* One row of widget_customers as its readers and writers other than the    *)
(* webhook see it: publisher sites whose widgets call the API               *)
(* (lib/widget-access.ts), the customer's own account                       *)
(* (api/widgets/account/route.ts) and the admin cockpit                     *)
(* (api/admin/widget-customers/route.ts).                                   *)
(*                                                                          *)
(* A visit is one HTTP request.  Each SQL statement is a step, so what a    *)
(* visit has read (its plan, its limit, a count) can be stale when it acts  *)
(* on it.  The webhook's statements on the same row appear as Billing...    *)
(* actions at any time; WidgetBilling models when they run.                 *)
(***************************************************************************)
EXTENDS Naturals, FiniteSets

CONSTANTS
    Visits,        \* requests served at the same time
    Sites,         \* publisher domains
    Activations,        \* <<plan, site>> of the leads the webhook may activate for this row
    PublisherKeys, \* values of api_key_hash
    PlanSites,     \* domainLimit of each plan
    PlanItems,     \* maxItems of each plan
    Quotas,        \* values of monthly_limit
    MaxItems,      \* items a visit may ask for: 1..MaxItems
    LastMonth,     \* months 1..LastMonth
    NoVisit

AccountPlans == DOMAIN PlanSites
AccountStatus == {"active", "past_due", "canceled", "inactive"}
Calendar == 1..LastMonth

ASSUME PlansAssumption ==
    /\ PlanSites \in [AccountPlans -> Nat \ {0}]
    /\ PlanItems \in [AccountPlans -> Nat \ {0}]
ASSUME QuotasAssumption == Quotas \subseteq Nat \ {0}
ASSUME BoundsAssumption == MaxItems \in Nat /\ LastMonth \in Nat \ {0}
ASSUME ActivationsAssumption == Activations \subseteq AccountPlans \X Sites
AccountRows == [plan : AccountPlans, status : AccountStatus, quota : Quotas,
                enabled : BOOLEAN, site : Sites]

\* What a visit keeps between its statements.
ActiveVisits ==
    [at : {"sites"}, entitled : BOOLEAN, plan : AccountPlans, quota : Quotas, home : Sites,
     site : Sites, items : 1..MaxItems]
      \cup [at : {"meter"}, quota : Quotas]
      \cup [at : {"daily"}]
      \cup [at : {"count"}, plan : AccountPlans, site : Sites]
      \cup [at : {"insert"}, site : Sites]
      \cup [at : {"countleft", "delete"}, site : Sites, admin : BOOLEAN]
VisitType == ActiveVisits \cup {NoVisit}

ASSUME VisitsAssumption == IsFiniteSet(Visits) /\ NoVisit \notin ActiveVisits

VARIABLES
    customer,   \* the row: plan, status, monthly limit, key enabled, its domain column
    key,       \* the key whose hash the row stores
    sites,     \* widget_customer_domains
    primaries, \* those with is_primary
    month,     \* date_trunc('month', now())
    monthly,   \* widget_usage_monthly.request_count
    daily,     \* sum of widget_usage_daily.request_count: the requests answered with data
    visit,
    \* history
    topQuota,  \* largest quota the row has had
    metered    \* requests counted in any month

rowVars == <<customer, key, sites, primaries>>
meterVars == <<month, monthly, daily, metered>>
accountVars == <<rowVars, meterVars, visit, topQuota>>

Keep(v, record) == visit' = [visit EXCEPT ![v] = record]
Answer(v) == Keep(v, NoVisit)
Waits(v, step) == visit[v] # NoVisit /\ visit[v].at = step
Open(v, record) == visit[v] = NoVisit /\ Keep(v, record)

-----------------------------------------------------------------------------
(* A widget request: findDatabaseCustomer, the checks, the meter.           *)

\* isPaidCustomer and api_key_enabled.
Entitled == customer.status = "active" /\ customer.enabled

\* The row is found by the hash of the key; an unknown key ends the request.
FindCustomer(v, s, n, k) ==
    /\ k = key
    /\ Open(v, [at |-> "sites", entitled |-> Entitled, plan |-> customer.plan,
                quota |-> customer.quota, home |-> customer.site, site |-> s, items |-> n])
    /\ UNCHANGED <<rowVars, meterVars, topQuota>>

\* Without rows in widget_customer_domains the row's own domain column counts.
AllowedSites(home) == IF sites = {} THEN {home} ELSE sites

\* The second query, then the checks on what both have read.
CheckAccess(v) ==
    /\ Waits(v, "sites")
    /\ IF /\ visit[v].entitled
          /\ visit[v].site \in AllowedSites(visit[v].home)
          /\ visit[v].items <= PlanItems[visit[v].plan]
       THEN Keep(v, [at |-> "meter", quota |-> visit[v].quota])
       ELSE Answer(v)
    /\ UNCHANGED <<rowVars, meterVars, topQuota>>

MayCountOneMore(v) == monthly[month] <= visit[v].quota  \* mutant
MayCount(v) == monthly[month] = 0 \/ monthly[month] < visit[v].quota

ConsumeUncounted(v) ==  \* mutant
    /\ Waits(v, "meter")
    /\ MayCount(v)
    /\ Keep(v, [at |-> "daily"])
    /\ UNCHANGED <<rowVars, meterVars, topQuota>>

\* One upsert: the first request of a month inserts, later ones add one below the limit.
ConsumeMonthly(v) ==
    /\ Waits(v, "meter")
    /\ IF MayCount(v)
       THEN /\ monthly' = [monthly EXCEPT ![month] = @ + 1]
            /\ metered' = metered + 1
            /\ Keep(v, [at |-> "daily"])
       ELSE UNCHANGED <<monthly, metered>> /\ Answer(v)
    /\ UNCHANGED <<rowVars, month, daily, topQuota>>

\* The day's row is counted and the request is answered with data.
CountDaily(v) ==
    /\ Waits(v, "daily")
    /\ daily' = daily + 1
    /\ Answer(v)
    /\ UNCHANGED <<rowVars, month, monthly, metered, topQuota>>

-----------------------------------------------------------------------------
(* The customer's account and the cockpit.  Both read the row first.        *)

StoreNewKey ==
    /\ key' \in PublisherKeys \ {key}
    /\ customer' = [customer EXCEPT !.enabled = TRUE]

\* rotate_key: one statement, which enables the key as well.
RotateKey(v) ==
    /\ visit[v] = NoVisit
    /\ StoreNewKey
    /\ UNCHANGED <<sites, primaries, meterVars, visit, topQuota>>

\* set_key_enabled and set_monthly_limit, cockpit only.
SetKeyEnabled(v) ==
    /\ visit[v] = NoVisit
    /\ \E on \in BOOLEAN : customer' = [customer EXCEPT !.enabled = on]
    /\ UNCHANGED <<key, sites, primaries, meterVars, visit, topQuota>>

SetAnyLimit(v) ==  \* mutant
    /\ visit[v] = NoVisit
    /\ customer' = [customer EXCEPT !.quota = 0]
    /\ UNCHANGED <<key, sites, primaries, meterVars, visit, topQuota>>

SetMonthlyLimit(v) ==
    /\ visit[v] = NoVisit
    /\ \E q \in Quotas :
          /\ customer' = [customer EXCEPT !.quota = q]
          /\ topQuota' = IF q > topQuota THEN q ELSE topQuota
    /\ UNCHANGED <<key, sites, primaries, meterVars, visit>>

\* add_domain: the row with its plan, the count, the insert.
OpenAddSite(v, s) ==
    /\ Open(v, [at |-> "count", plan |-> customer.plan, site |-> s])
    /\ UNCHANGED <<rowVars, meterVars, topQuota>>

CountSites(v) ==
    /\ Waits(v, "count")
    /\ IF Cardinality(sites) >= PlanSites[visit[v].plan]
       THEN Answer(v)
       ELSE Keep(v, [at |-> "insert", site |-> visit[v].site])
    /\ UNCHANGED <<rowVars, meterVars, topQuota>>

InsertSite(v) ==
    /\ Waits(v, "insert")
    /\ sites' = sites \cup {visit[v].site}
    /\ Answer(v)
    /\ UNCHANGED <<customer, key, primaries, meterVars, topQuota>>

\* remove_domain: the row, the count, the delete; the account keeps primary domains.
OpenRemoveSite(v, s, admin) ==
    /\ Open(v, [at |-> "countleft", site |-> s, admin |-> admin])
    /\ UNCHANGED <<rowVars, meterVars, topQuota>>

CountSitesLeft(v) ==
    /\ Waits(v, "countleft")
    /\ IF Cardinality(sites) <= 1
       THEN Answer(v)
       ELSE Keep(v, [at |-> "delete", site |-> visit[v].site, admin |-> visit[v].admin])
    /\ UNCHANGED <<rowVars, meterVars, topQuota>>

Removable(v) == IF visit[v].admin THEN {visit[v].site} ELSE {visit[v].site} \ primaries

DeleteSite(v) ==
    /\ Waits(v, "delete")
    /\ sites' = sites \ Removable(v)
    /\ primaries' = primaries \ Removable(v)
    /\ Answer(v)
    /\ UNCHANGED <<customer, key, meterVars, topQuota>>

-----------------------------------------------------------------------------
(* The webhook's statements on the row.                                     *)

BillingUpdatesCustomer ==
    /\ \E o \in Activations :
          customer' = [customer EXCEPT !.plan = o[1], !.site = o[2], !.status = "active"]
    /\ UNCHANGED <<key, sites, primaries, meterVars, visit, topQuota>>

BillingReplacesKey ==
    /\ StoreNewKey
    /\ UNCHANGED <<sites, primaries, meterVars, visit, topQuota>>

BillingSetsStatus ==
    /\ \E s \in AccountStatus : customer' = [customer EXCEPT !.status = s]
    /\ UNCHANGED <<key, sites, primaries, meterVars, visit, topQuota>>

BillingEnsuresSite ==
    /\ \E o \in Activations :
          /\ o[2] \notin sites
          /\ sites' = sites \cup {o[2]}
          /\ primaries' = primaries \cup {o[2]}
    /\ UNCHANGED <<customer, key, meterVars, visit, topQuota>>

-----------------------------------------------------------------------------
NextMonth ==
    /\ month < LastMonth
    /\ month' = month + 1
    /\ UNCHANGED <<rowVars, monthly, daily, metered, visit, topQuota>>

\* A statement throws, or the process ends: the request is over, what it wrote stays.
VisitFails(v) ==
    /\ visit[v] # NoVisit
    /\ Answer(v)
    /\ UNCHANGED <<rowVars, meterVars, topQuota>>

AccountInit ==
    /\ \E o \in Activations, q \in Quotas :
          /\ customer = [plan |-> o[1], status |-> "active", quota |-> q,
                        enabled |-> TRUE, site |-> o[2]]
          /\ sites = {o[2]} /\ primaries = {o[2]} /\ topQuota = q
    /\ key \in PublisherKeys
    /\ month = 1 /\ monthly = [m \in Calendar |-> 0]
    /\ daily = 0 /\ metered = 0
    /\ visit = [v \in Visits |-> NoVisit]

WidgetRequest(v) ==
    \/ \E s \in Sites, n \in 1..MaxItems, k \in PublisherKeys : FindCustomer(v, s, n, k)
    \/ CheckAccess(v)
    \/ ConsumeMonthly(v)
    \/ CountDaily(v)

AccountRequest(v) ==
    \/ RotateKey(v) \/ SetKeyEnabled(v) \/ SetMonthlyLimit(v)
    \/ \E s \in Sites : OpenAddSite(v, s) \/ \E admin \in BOOLEAN : OpenRemoveSite(v, s, admin)
    \/ CountSites(v) \/ InsertSite(v)
    \/ CountSitesLeft(v) \/ DeleteSite(v)

BillingStep ==
    BillingUpdatesCustomer \/ BillingReplacesKey \/ BillingSetsStatus \/ BillingEnsuresSite

AccountNext ==
    \/ \E v \in Visits : WidgetRequest(v) \/ AccountRequest(v) \/ VisitFails(v)
    \/ BillingStep
    \/ NextMonth

AccountSpec == AccountInit /\ [][AccountNext]_accountVars

-----------------------------------------------------------------------------
AccountTypeOK ==
    /\ customer \in AccountRows /\ key \in PublisherKeys
    /\ primaries \subseteq sites /\ sites \subseteq Sites
    /\ month \in Calendar
    /\ monthly \in [Calendar -> Nat]
    /\ daily \in Nat /\ metered \in Nat
    /\ visit \in [Visits -> VisitType]
    /\ topQuota \in Quotas

\* However requests interleave with each other, with changes of the limit and with the turn
\* of the month, no month is counted past the largest limit the row has had: a request may
\* act on a limit it read before an admin lowered it, but never on more than that.
MeterWithinLimit == \A m \in Calendar : monthly[m] <= topQuota

\* Nobody is served without being metered, and the daily statistics never show more than was
\* metered in total (for one month they may: the two statements can fall on either side of
\* midnight).
MeterAddsUp == daily <= metered

\* docs/widget_customer_management.md: Starter permits two domains, Growth eight, ...: with
\* no change of plan, the number of sites stays within the plan's limit.
SitesWithinPlan == Cardinality(sites) <= PlanSites[customer.plan]
=============================================================================
