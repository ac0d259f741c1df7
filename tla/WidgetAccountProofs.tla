------------------------ MODULE WidgetAccountProofs ------------------------
(***************************************************************************)
(* WidgetAccount: types, and the two facts about the meter, for any number   *)
(* of visits, keys, sites, plans, limits and months.                         *)
(***************************************************************************)
EXTENDS WidgetAccount, FiniteSetTheorems, TLAPS

USE DEF rowVars, meterVars, accountVars

-----------------------------------------------------------------------------
(* Types                                                                     *)

\* What an idle or an active visit keeps is typed by the step it is at.
LEMMA VisitFields ==
    ASSUME NEW w \in VisitType, w # NoVisit
    PROVE  /\ w \in ActiveVisits
           /\ w.at = "sites" => /\ w.entitled \in BOOLEAN /\ w.plan \in AccountPlans
                                /\ w.quota \in Quotas /\ w.home \in Sites /\ w.site \in Sites
                                /\ w.items \in 1..MaxItems
           /\ w.at = "meter" => w.quota \in Quotas
           /\ w.at = "count" => w.plan \in AccountPlans /\ w.site \in Sites
           /\ w.at = "insert" => w.site \in Sites
           /\ w.at \in {"countleft", "delete"} => w.site \in Sites /\ w.admin \in BOOLEAN
BY DEF VisitType, ActiveVisits

\* One visit moves on to a well typed record.
LEMMA VisitChange ==
    ASSUME AccountTypeOK, NEW v \in Visits, NEW w \in VisitType, Keep(v, w)
    PROVE  /\ visit' \in [Visits -> VisitType]
           /\ visit'[v] = w
           /\ \A u \in Visits : u # v => visit'[u] = visit[u]
BY DEF AccountTypeOK, Keep

\* The records the steps create.
LEMMA NewVisits ==
    /\ NoVisit \in VisitType
    /\ \A q \in Quotas : [at |-> "meter", quota |-> q] \in VisitType
    /\ [at |-> "daily"] \in VisitType
    /\ \A p \in AccountPlans, s \in Sites : [at |-> "count", plan |-> p, site |-> s] \in VisitType
    /\ \A s \in Sites : [at |-> "insert", site |-> s] \in VisitType
    /\ \A s \in Sites, b \in BOOLEAN :
          /\ [at |-> "countleft", site |-> s, admin |-> b] \in VisitType
          /\ [at |-> "delete", site |-> s, admin |-> b] \in VisitType
BY DEF VisitType, ActiveVisits

\* A widget request's steps keep the types.
LEMMA TypedRequest ==
    ASSUME AccountTypeOK, NEW v \in Visits, WidgetRequest(v)
    PROVE  AccountTypeOK'
  <1>. USE DEF AccountTypeOK
  <1>1. ASSUME NEW s \in Sites, NEW n \in 1..MaxItems, NEW k \in PublisherKeys,
               FindCustomer(v, s, n, k)
        PROVE  AccountTypeOK'
    <2>1. [at |-> "sites", entitled |-> Entitled, plan |-> customer.plan, quota |-> customer.quota,
           home |-> customer.site, site |-> s, items |-> n] \in VisitType
      BY DEF VisitType, ActiveVisits, Entitled, AccountRows
    <2>. QED BY <1>1, <2>1, VisitChange DEF FindCustomer, Open
  <1>2. CASE CheckAccess(v)
    BY <1>2, VisitFields, VisitChange, NewVisits DEF CheckAccess, Waits, Answer
  <1>3. CASE ConsumeMonthly(v)
    BY <1>3, VisitChange, NewVisits DEF ConsumeMonthly, Waits, Answer
  <1>4. CASE CountDaily(v)
    BY <1>4, VisitChange, NewVisits DEF CountDaily, Waits, Answer
  <1>. QED BY <1>1, <1>2, <1>3, <1>4 DEF WidgetRequest

\* So do those of the account and the cockpit.
LEMMA TypedAccount ==
    ASSUME AccountTypeOK, NEW v \in Visits, AccountRequest(v) \/ VisitFails(v)
    PROVE  AccountTypeOK'
  <1>. USE DEF AccountTypeOK
  <1>1. CASE RotateKey(v)
    BY <1>1 DEF RotateKey, StoreNewKey, AccountRows
  <1>2. CASE SetKeyEnabled(v)
    BY <1>2 DEF SetKeyEnabled, AccountRows
  <1>3. CASE SetMonthlyLimit(v)
    BY <1>3 DEF SetMonthlyLimit, AccountRows
  <1>4. ASSUME NEW s \in Sites, OpenAddSite(v, s)
        PROVE  AccountTypeOK'
    BY <1>4, VisitChange, NewVisits DEF OpenAddSite, Open, AccountRows
  <1>5. ASSUME NEW s \in Sites, NEW admin \in BOOLEAN, OpenRemoveSite(v, s, admin)
        PROVE  AccountTypeOK'
    BY <1>5, VisitChange, NewVisits DEF OpenRemoveSite, Open
  <1>6. CASE CountSites(v)
    BY <1>6, VisitFields, VisitChange, NewVisits DEF CountSites, Waits, Answer
  <1>7. CASE InsertSite(v)
    BY <1>7, VisitFields, VisitChange, NewVisits DEF InsertSite, Waits, Answer
  <1>8. CASE CountSitesLeft(v)
    BY <1>8, VisitFields, VisitChange, NewVisits DEF CountSitesLeft, Waits, Answer
  <1>9. CASE DeleteSite(v)
    BY <1>9, VisitChange, NewVisits DEF DeleteSite, Waits, Answer
  <1>10. CASE VisitFails(v)
    BY <1>10, VisitChange, NewVisits DEF VisitFails, Answer
  <1>. QED BY <1>1, <1>2, <1>3, <1>4, <1>5, <1>6, <1>7, <1>8, <1>9, <1>10 DEF AccountRequest

\* And the webhook's statements.
LEMMA TypedBilling ==
    ASSUME AccountTypeOK, BillingStep
    PROVE  AccountTypeOK'
  <1>. USE DEF AccountTypeOK
  <1>1. CASE BillingUpdatesCustomer
    BY <1>1, ActivationsAssumption DEF BillingUpdatesCustomer, AccountRows, AccountStatus
  <1>2. CASE BillingReplacesKey
    BY <1>2 DEF BillingReplacesKey, StoreNewKey, AccountRows
  <1>3. CASE BillingSetsStatus
    BY <1>3 DEF BillingSetsStatus, AccountRows
  <1>4. CASE BillingEnsuresSite
    BY <1>4, ActivationsAssumption DEF BillingEnsuresSite
  <1>. QED BY <1>1, <1>2, <1>3, <1>4 DEF BillingStep

LEMMA TypedInit == AccountInit => AccountTypeOK
  <1>. SUFFICES ASSUME AccountInit PROVE AccountTypeOK
    OBVIOUS
  <1>1. 1 \in Calendar
    BY BoundsAssumption DEF Calendar
  <1>2. visit \in [Visits -> VisitType]
    BY DEF AccountInit, VisitType
  <1>3. monthly \in [Calendar -> Nat] /\ daily \in Nat /\ metered \in Nat /\ month \in Calendar
    BY <1>1 DEF AccountInit
  <1>4. customer \in AccountRows /\ sites \subseteq Sites /\ primaries \subseteq sites /\ topQuota \in Quotas
    BY ActivationsAssumption DEF AccountInit, AccountRows, AccountStatus
  <1>. QED BY <1>2, <1>3, <1>4 DEF AccountInit, AccountTypeOK

LEMMA TypedStep == AccountTypeOK /\ [AccountNext]_accountVars => AccountTypeOK'
  <1>. SUFFICES ASSUME AccountTypeOK, [AccountNext]_accountVars PROVE AccountTypeOK'
    OBVIOUS
  <1>1. CASE NextMonth
    BY <1>1, BoundsAssumption DEF NextMonth, AccountTypeOK, Calendar
  <1>2. CASE UNCHANGED accountVars
    BY <1>2 DEF AccountTypeOK
  <1>. QED BY <1>1, <1>2, TypedRequest, TypedAccount, TypedBilling DEF AccountNext

\* The customer's row, its sites, the meter and every request hold only what the code can
\* write there.
THEOREM AccountTypeCorrect == AccountSpec => []AccountTypeOK
BY TypedInit, TypedStep, PTL DEF AccountSpec

-----------------------------------------------------------------------------
(* The monthly limit                                                         *)

\* Every limit that may still be compared with is at most the largest there was.
LimitOK(w) == w # NoVisit /\ w.at \in {"sites", "meter"} => w.quota <= topQuota
LimitsKnown ==
    /\ AccountTypeOK
    /\ MeterWithinLimit
    /\ customer.quota <= topQuota
    /\ \A v \in Visits : LimitOK(visit[v])

LEMMA QuotaIsPositive == \A q \in Quotas : q \in Nat /\ q >= 1
BY QuotasAssumption

\* A visit that moves on with the limit it had, or with none, leaves the limits known.
LEMMA LimitsKept ==
    ASSUME LimitsKnown, AccountTypeOK', NEW v \in Visits, UNCHANGED <<monthly, topQuota>>,
           customer' = customer, NEW w \in VisitType, Keep(v, w), LimitOK(w)
    PROVE  LimitsKnown'
BY VisitChange DEF LimitsKnown, LimitOK, MeterWithinLimit

LEMMA LimitsInit == AccountInit => LimitsKnown
  <1>. SUFFICES ASSUME AccountInit PROVE LimitsKnown
    OBVIOUS
  <1>1. AccountTypeOK
    BY TypedInit
  <1>2. topQuota \in Nat /\ customer.quota = topQuota
    BY <1>1, QuotaIsPositive DEF AccountInit, AccountTypeOK
  <1>. QED BY <1>1, <1>2 DEF AccountInit, LimitsKnown, LimitOK, MeterWithinLimit

LEMMA LimitsStep == LimitsKnown /\ [AccountNext]_accountVars => LimitsKnown'
  <1>. SUFFICES ASSUME LimitsKnown, [AccountNext]_accountVars PROVE LimitsKnown'
    OBVIOUS
  <1>0. AccountTypeOK /\ AccountTypeOK'
    BY TypedStep DEF LimitsKnown
  <1>q. /\ customer.quota \in Nat /\ topQuota \in Nat /\ topQuota >= 1
        /\ \A m \in Calendar : monthly[m] \in Nat
    BY <1>0, QuotaIsPositive DEF AccountTypeOK, AccountRows
  <1>1. ASSUME NEW v \in Visits, NEW s \in Sites, NEW n \in 1..MaxItems, NEW k \in PublisherKeys,
               FindCustomer(v, s, n, k)
        PROVE  LimitsKnown'
    <2>1. PICK w \in VisitType : /\ w = visit'[v] /\ Keep(v, w)
                                 /\ w = [at |-> "sites", entitled |-> Entitled, plan |-> customer.plan,
                                         quota |-> customer.quota, home |-> customer.site,
                                         site |-> s, items |-> n]
      BY <1>0, <1>1 DEF FindCustomer, Open, Keep, AccountTypeOK
    <2>2. LimitOK(w)
      BY <2>1 DEF LimitsKnown, LimitOK
    <2>. QED BY <1>0, <1>1, <2>1, <2>2, LimitsKept DEF FindCustomer
  <1>2. ASSUME NEW v \in Visits, CheckAccess(v)
        PROVE  LimitsKnown'
    <2>1. visit[v].quota \in Quotas /\ LimitOK([at |-> "meter", quota |-> visit[v].quota])
      BY <1>0, <1>2, VisitFields DEF CheckAccess, Waits, LimitsKnown, LimitOK, AccountTypeOK
    <2>2. LimitOK(NoVisit)
      BY DEF LimitOK
    <2>. QED BY <1>0, <1>2, <2>1, <2>2, LimitsKept, NewVisits DEF CheckAccess, Answer
  <1>3. ASSUME NEW v \in Visits, ConsumeMonthly(v)
        PROVE  LimitsKnown'
    <2>0. LimitOK(NoVisit) /\ LimitOK([at |-> "daily"])
      BY DEF LimitOK
    <2>1. CASE MayCount(v)
      <3>1. visit[v].quota \in Nat /\ visit[v].quota <= topQuota
        BY <1>0, <1>3, VisitFields, QuotaIsPositive
        DEF ConsumeMonthly, Waits, LimitsKnown, LimitOK, AccountTypeOK
      <3>2. month \in Calendar /\ monthly[month] + 1 <= topQuota
        BY <1>0, <1>q, <2>1, <3>1 DEF MayCount, AccountTypeOK
      <3>3. MeterWithinLimit'
        BY <1>0, <1>3, <2>1, <3>2 DEF ConsumeMonthly, MeterWithinLimit, LimitsKnown, AccountTypeOK
      <3>. QED BY <1>0, <1>3, <2>0, <2>1, <3>3, VisitChange, NewVisits
               DEF ConsumeMonthly, LimitsKnown, LimitOK
    <2>2. CASE ~MayCount(v)
      BY <1>0, <1>3, <2>0, <2>2, LimitsKept, NewVisits DEF ConsumeMonthly, Answer
    <2>. QED BY <2>1, <2>2
  <1>4. ASSUME NEW v \in Visits,
               CountDaily(v) \/ CountSites(v) \/ CountSitesLeft(v) \/ VisitFails(v)
        PROVE  LimitsKnown'
    <2>1. PICK w \in VisitType : Keep(v, w) /\ (w = NoVisit \/ w.at \in {"insert", "delete"})
      <3>1. CASE CountDaily(v) \/ VisitFails(v)
        BY <3>1, NewVisits DEF CountDaily, VisitFails, Answer
      <3>2. CASE CountSites(v)
        <4>1. visit[v].site \in Sites
          BY <1>0, <3>2, VisitFields DEF CountSites, Waits, AccountTypeOK
        <4>2. /\ [at |-> "insert", site |-> visit[v].site] \in VisitType
              /\ [at |-> "insert", site |-> visit[v].site].at = "insert"
          BY <4>1, NewVisits
        <4>. QED BY <3>2, <4>2, NewVisits DEF CountSites, Answer
      <3>3. CASE CountSitesLeft(v)
        <4>1. visit[v].site \in Sites /\ visit[v].admin \in BOOLEAN
          BY <1>0, <3>3, VisitFields DEF CountSitesLeft, Waits, AccountTypeOK
        <4>2. /\ [at |-> "delete", site |-> visit[v].site, admin |-> visit[v].admin] \in VisitType
              /\ [at |-> "delete", site |-> visit[v].site, admin |-> visit[v].admin].at = "delete"
          BY <4>1, NewVisits
        <4>. QED BY <3>3, <4>2, NewVisits DEF CountSitesLeft, Answer
      <3>. QED BY <1>4, <3>1, <3>2, <3>3
    <2>. QED BY <1>0, <1>4, <2>1, LimitsKept
             DEF CountDaily, CountSites, CountSitesLeft, VisitFails, LimitOK
  <1>5. ASSUME NEW v \in Visits, InsertSite(v) \/ DeleteSite(v)
        PROVE  LimitsKnown'
    BY <1>0, <1>5, LimitsKept, NewVisits DEF InsertSite, DeleteSite, Answer, LimitOK
  <1>6. ASSUME NEW v \in Visits, NEW s \in Sites,
               OpenAddSite(v, s) \/ \E admin \in BOOLEAN : OpenRemoveSite(v, s, admin)
        PROVE  LimitsKnown'
    <2>1. PICK w \in VisitType : Keep(v, w) /\ w.at \in {"count", "countleft"}
      <3>1. CASE OpenAddSite(v, s)
        <4>1. customer.plan \in AccountPlans
          BY <1>0 DEF AccountTypeOK, AccountRows
        <4>2. /\ [at |-> "count", plan |-> customer.plan, site |-> s] \in VisitType
              /\ [at |-> "count", plan |-> customer.plan, site |-> s].at = "count"
          BY <4>1, NewVisits
        <4>. QED BY <3>1, <4>2 DEF OpenAddSite, Open
      <3>2. ASSUME NEW admin \in BOOLEAN, OpenRemoveSite(v, s, admin)
            PROVE  \E w \in VisitType : Keep(v, w) /\ w.at \in {"count", "countleft"}
        <4>1. /\ [at |-> "countleft", site |-> s, admin |-> admin] \in VisitType
              /\ [at |-> "countleft", site |-> s, admin |-> admin].at = "countleft"
          BY NewVisits
        <4>. QED BY <3>2, <4>1 DEF OpenRemoveSite, Open
      <3>. QED BY <1>6, <3>1, <3>2
    <2>. QED BY <1>0, <1>6, <2>1, LimitsKept DEF OpenAddSite, OpenRemoveSite, LimitOK
  <1>7. ASSUME NEW v \in Visits, SetMonthlyLimit(v)
        PROVE  LimitsKnown'
    <2>1. /\ topQuota' \in Nat /\ customer'.quota <= topQuota' /\ topQuota <= topQuota'
      BY <1>0, <1>7, <1>q, QuotaIsPositive DEF SetMonthlyLimit, AccountTypeOK, AccountRows
    <2>2. \A u \in Visits : visit[u] # NoVisit /\ visit[u].at \in {"sites", "meter"}
                              => visit[u].quota \in Nat /\ visit[u].quota <= topQuota
      BY <1>0, VisitFields, QuotaIsPositive DEF LimitsKnown, LimitOK, AccountTypeOK
    <2>3. \A u \in Visits : LimitOK(visit[u])'
      BY <1>7, <1>q, <2>1, <2>2 DEF SetMonthlyLimit, LimitOK
    <2>4. MeterWithinLimit'
      BY <1>7, <1>q, <2>1 DEF SetMonthlyLimit, MeterWithinLimit, LimitsKnown
    <2>. QED BY <1>0, <2>1, <2>3, <2>4 DEF LimitsKnown
  <1>8. ASSUME NEW v \in Visits, RotateKey(v) \/ SetKeyEnabled(v)
        PROVE  LimitsKnown'
    BY <1>0, <1>8
    DEF RotateKey, StoreNewKey, SetKeyEnabled, LimitsKnown, LimitOK, MeterWithinLimit,
        AccountTypeOK, AccountRows
  <1>9. CASE BillingStep
    BY <1>0, <1>9
    DEF BillingStep, BillingUpdatesCustomer, BillingReplacesKey, StoreNewKey, BillingSetsStatus,
        BillingEnsuresSite, LimitsKnown, LimitOK, MeterWithinLimit, AccountTypeOK, AccountRows
  <1>10. CASE NextMonth
    BY <1>0, <1>10 DEF NextMonth, LimitsKnown, LimitOK, MeterWithinLimit
  <1>11. CASE UNCHANGED accountVars
    BY <1>0, <1>11 DEF LimitsKnown, LimitOK, MeterWithinLimit
  <1>. QED BY <1>1, <1>2, <1>3, <1>4, <1>5, <1>6, <1>7, <1>8, <1>9, <1>10, <1>11
           DEF AccountNext, WidgetRequest, AccountRequest

\* No month is metered past the largest limit the row has had.
THEOREM MeterStaysWithinLimit == AccountSpec => []MeterWithinLimit
  <1>1. LimitsKnown => MeterWithinLimit
    BY DEF LimitsKnown
  <1>. QED BY <1>1, LimitsInit, LimitsStep, PTL DEF AccountSpec

-----------------------------------------------------------------------------
(* What was answered was metered                                             *)

\* Requests that are metered and not yet counted for the day.
Uncounted == {v \in Visits : Waits(v, "daily")}
MeterCovers ==
    /\ AccountTypeOK
    /\ daily + Cardinality(Uncounted) <= metered

LEMMA UncountedFinite ==
    /\ IsFiniteSet(Uncounted) /\ IsFiniteSet(Uncounted')
    /\ Cardinality(Uncounted) \in Nat /\ Cardinality(Uncounted') \in Nat
BY VisitsAssumption, FS_Subset, FS_CardinalityType DEF Uncounted

\* Steps that neither meter nor count can only lose a request that waited to be counted.
LEMMA UncountedShrinks ==
    ASSUME MeterCovers, AccountTypeOK', UNCHANGED <<daily, metered>>,
           Uncounted' \subseteq Uncounted
    PROVE  MeterCovers'
  <1>1. Cardinality(Uncounted') <= Cardinality(Uncounted)
    BY UncountedFinite, FS_Subset
  <1>. QED BY <1>1, UncountedFinite DEF MeterCovers, AccountTypeOK

\* A visit that moves to any other step adds no waiting request.
LEMMA UncountedMove ==
    ASSUME AccountTypeOK, NEW v \in Visits, NEW w \in VisitType, Keep(v, w),
           w = NoVisit \/ w.at # "daily"
    PROVE  Uncounted' \subseteq Uncounted
BY VisitChange DEF Uncounted, Waits

LEMMA CoversInit == AccountInit => MeterCovers
  <1>. SUFFICES ASSUME AccountInit PROVE MeterCovers
    OBVIOUS
  <1>1. Uncounted = {}
    BY DEF AccountInit, Uncounted, Waits
  <1>2. Cardinality(Uncounted) = 0
    BY <1>1, FS_EmptySet
  <1>3. daily = 0 /\ metered = 0
    BY DEF AccountInit
  <1>. QED BY <1>2, <1>3, TypedInit DEF MeterCovers

LEMMA CoversStep == MeterCovers /\ [AccountNext]_accountVars => MeterCovers'
  <1>. SUFFICES ASSUME MeterCovers, [AccountNext]_accountVars PROVE MeterCovers'
    OBVIOUS
  <1>0. AccountTypeOK /\ AccountTypeOK' /\ daily \in Nat /\ metered \in Nat
    BY TypedStep DEF MeterCovers, AccountTypeOK
  <1>1. ASSUME NEW v \in Visits, ConsumeMonthly(v)
        PROVE  MeterCovers'
    <2>1. CASE MayCount(v)
      <3>1. Keep(v, [at |-> "daily"]) /\ metered' = metered + 1 /\ daily' = daily
        BY <1>1, <2>1 DEF ConsumeMonthly
      <3>2. Uncounted' \subseteq Uncounted \cup {v}
        BY <1>0, <3>1, VisitChange, NewVisits DEF Uncounted, Waits
      <3>3. Cardinality(Uncounted') <= Cardinality(Uncounted) + 1
        <4>1. /\ IsFiniteSet(Uncounted \cup {v})
              /\ Cardinality(Uncounted \cup {v}) <= Cardinality(Uncounted) + 1
          BY UncountedFinite, FS_AddElement
        <4>2. Cardinality(Uncounted') <= Cardinality(Uncounted \cup {v})
          BY <3>2, <4>1, FS_Subset
        <4>3. Cardinality(Uncounted \cup {v}) \in Nat
          BY <4>1, FS_CardinalityType
        <4>. QED BY <4>1, <4>2, <4>3, UncountedFinite
      <3>. QED BY <1>0, <3>1, <3>3, UncountedFinite DEF MeterCovers
    <2>2. CASE ~MayCount(v)
      BY <1>0, <1>1, <2>2, UncountedMove, UncountedShrinks, NewVisits DEF ConsumeMonthly, Answer
    <2>. QED BY <2>1, <2>2
  <1>2. ASSUME NEW v \in Visits, CountDaily(v)
        PROVE  MeterCovers'
    <2>1. v \in Uncounted /\ Uncounted' \subseteq Uncounted \ {v}
      BY <1>0, <1>2, VisitChange, NewVisits DEF CountDaily, Uncounted, Waits, Answer
    <2>2. Cardinality(Uncounted') <= Cardinality(Uncounted) - 1
      BY <2>1, UncountedFinite, FS_RemoveElement, FS_Subset
    <2>. QED BY <1>0, <1>2, <2>2, UncountedFinite DEF CountDaily, MeterCovers
  <1>3. ASSUME NEW v \in Visits, NEW s \in Sites, NEW n \in 1..MaxItems, NEW k \in PublisherKeys,
               FindCustomer(v, s, n, k)
        PROVE  MeterCovers'
    <2>1. PICK w \in VisitType : Keep(v, w) /\ w.at = "sites"
      <3>1. [at |-> "sites", entitled |-> Entitled, plan |-> customer.plan, quota |-> customer.quota,
             home |-> customer.site, site |-> s, items |-> n] \in VisitType
        BY <1>0 DEF VisitType, ActiveVisits, Entitled, AccountTypeOK, AccountRows
      <3>. QED BY <1>3, <3>1 DEF FindCustomer, Open
    <2>. QED BY <1>0, <1>3, <2>1, UncountedMove, UncountedShrinks DEF FindCustomer
  <1>4. ASSUME NEW v \in Visits,
               CheckAccess(v) \/ CountSites(v) \/ CountSitesLeft(v) \/ InsertSite(v)
                 \/ DeleteSite(v) \/ VisitFails(v)
        PROVE  MeterCovers'
    <2>1. \A u \in Visits : u # v => visit'[u] = visit[u]
      BY <1>0, <1>4 DEF CheckAccess, CountSites, CountSitesLeft, InsertSite, DeleteSite, VisitFails,
                        Answer, Keep, AccountTypeOK
    <2>2. ~Waits(v, "daily")'
      BY <1>0, <1>4 DEF CheckAccess, CountSites, CountSitesLeft, InsertSite, DeleteSite, VisitFails,
                        Answer, Keep, Waits, AccountTypeOK
    <2>3. Uncounted' \subseteq Uncounted
      BY <2>1, <2>2 DEF Uncounted, Waits
    <2>. QED BY <1>0, <1>4, <2>3, UncountedShrinks
             DEF CheckAccess, CountSites, CountSitesLeft, InsertSite, DeleteSite, VisitFails
  <1>5. ASSUME NEW v \in Visits, NEW s \in Sites,
               OpenAddSite(v, s) \/ \E admin \in BOOLEAN : OpenRemoveSite(v, s, admin)
        PROVE  MeterCovers'
    <2>1. \A u \in Visits : u # v => visit'[u] = visit[u]
      BY <1>0, <1>5 DEF OpenAddSite, OpenRemoveSite, Open, Keep, AccountTypeOK
    <2>2. ~Waits(v, "daily")'
      BY <1>0, <1>5 DEF OpenAddSite, OpenRemoveSite, Open, Keep, Waits, AccountTypeOK
    <2>3. Uncounted' \subseteq Uncounted
      BY <2>1, <2>2 DEF Uncounted, Waits
    <2>. QED BY <1>0, <1>5, <2>3, UncountedShrinks DEF OpenAddSite, OpenRemoveSite
  <1>6. ASSUME UNCHANGED <<visit, daily, metered>>
        PROVE  MeterCovers'
    BY <1>0, <1>6, UncountedShrinks DEF Uncounted, Waits
  <1>7. ASSUME NEW v \in Visits, RotateKey(v) \/ SetKeyEnabled(v) \/ SetMonthlyLimit(v)
        PROVE  MeterCovers'
    BY <1>6, <1>7 DEF RotateKey, SetKeyEnabled, SetMonthlyLimit
  <1>8. CASE BillingStep \/ NextMonth \/ UNCHANGED accountVars
    BY <1>6, <1>8 DEF BillingStep, BillingUpdatesCustomer, BillingReplacesKey, BillingSetsStatus,
                      BillingEnsuresSite, NextMonth
  <1>. QED BY <1>1, <1>2, <1>3, <1>4, <1>5, <1>7, <1>8
           DEF AccountNext, WidgetRequest, AccountRequest

\* The requests answered with data are never more than the requests metered.
THEOREM AnsweredIsMetered == AccountSpec => []MeterAddsUp
  <1>1. MeterCovers => MeterAddsUp
    BY UncountedFinite DEF MeterCovers, MeterAddsUp, AccountTypeOK
  <1>. QED BY <1>1, CoversInit, CoversStep, PTL DEF AccountSpec
=============================================================================
