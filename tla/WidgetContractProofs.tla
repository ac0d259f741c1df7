------------------------ MODULE WidgetContractProofs ------------------------
(***************************************************************************)
(* WidgetContract: a configured schedule that releases its subscription ends *)
(* at the monthly price, whatever the orders, requests and retries; and a    *)
(* buyer with one order keeps it until the end of its minimum term.          *)
(* ContractInv says what schedules, requests and the row look like at each   *)
(* step, TermInv that whatever may end the subscription lies beyond the term.*)
(***************************************************************************)
EXTENDS WidgetContract, Integers, FiniteSetTheorems, SequenceTheorems, TLAPS

USE DEF contractVars, stripeVars

-----------------------------------------------------------------------------
(* The inductive invariant                                                   *)

Prices == {"annual", "monthly"}
Phases == [start : Int, end : Nat, price : Prices]
MaybeSchedule == Schedules \cup {Nothing}
MaybeDate == Nat \cup {Nothing}

SubscriptionRow == [state : {"active", "ended"}, since : Nat, price : Prices, cancelAt : Nat,
                    until : Nat, schedule : MaybeSchedule]
ScheduleRow == [state : {"active", "over"}, order : Orders, phases : Seq(Phases),
                end : {"release", "cancel"}]
LeadRow == [new : BOOLEAN, schedule : MaybeSchedule]
CustomerRow == [order : Orders, term : Nat, until : MaybeDate, schedule : MaybeSchedule]
HookRow == [at : {"find", "create", "configure", "lead", "row", "sync"},
            for : {"checkout", "payment", "update"}, order : Orders, schedule : MaybeSchedule,
            first : Phases \cup {Nothing}, until : MaybeDate]
AccountRow == [at : {"read", "write", "direct"}, cancel : BOOLEAN, date : Nat, order : Orders,
               schedule : MaybeSchedule, phases : Seq(Phases)]

\* A schedule has one phase, or two, the second at the monthly price; they follow one another.
Phased(phases) ==
    /\ phases \in Seq(Phases) /\ Len(phases) \in {1, 2}
    /\ \A i \in 1..Len(phases) : phases[i].start < phases[i].end
    /\ Len(phases) = 2 => phases[1].end = phases[2].start /\ phases[2].price = "monthly"

Subscribed(o) == subscription[o] # NoSubscription
Begun(c) == schedule[c] # NoSchedule

ContractTypes ==
    /\ now \in Nat
    /\ subscription \in [Orders -> SubscriptionRow \cup {NoSubscription}]
    /\ schedule \in [Schedules -> ScheduleRow \cup {NoSchedule}]
    /\ lead \in [Orders -> LeadRow]
    /\ row \in CustomerRow \cup {Nothing}
    /\ webhook \in [Webhooks -> HookRow \cup {Nothing}]
    /\ account \in [Accounts -> AccountRow \cup {Nothing}]
    /\ configured \subseteq {c \in Schedules : Begun(c)}

\* A configured schedule that releases its subscription has its monthly phase.
ScheduleOK(c) ==
    Begun(c) => /\ Phased(schedule[c].phases) /\ Subscribed(schedule[c].order)
                /\ c \in configured /\ schedule[c].end = "release" => Len(schedule[c].phases) = 2
HookOK(h) ==
    webhook[h] # Nothing =>
        /\ Subscribed(webhook[h].order)
        /\ webhook[h].at = "configure" => /\ webhook[h].first \in Phases
                                          /\ webhook[h].first.start < webhook[h].first.end
AccountOK(a) ==
    account[a] # Nothing =>
        /\ Subscribed(account[a].order)
        /\ account[a].at = "write" => /\ Phased(account[a].phases)
                                      /\ account[a].cancel \/ Len(account[a].phases) = 2

ContractInv ==
    /\ ContractTypes
    /\ \A c \in Schedules : ScheduleOK(c)
    /\ \A h \in Webhooks : HookOK(h)
    /\ \A a \in Accounts : AccountOK(a)
    /\ row # Nothing => Subscribed(row.order)

\* The one order of its buyer: whatever may end its subscription lies beyond the term.
Past(o) == now >= TermEnd(o)
Beyond(o, date) == Past(o) \/ date >= TermEnd(o)
OneOrder == \A o, p \in Orders : Subscribed(o) /\ Subscribed(p) => o = p

SubscriptionTerm(o) ==
    Subscribed(o) =>
        /\ subscription[o].state = "ended" => Past(o)
        /\ Beyond(o, subscription[o].cancelAt)
        /\ Interval[o] = "annual" => Beyond(o, subscription[o].until)
        /\ subscription[o].schedule # Nothing => Begun(subscription[o].schedule)
ScheduleTerm(c) ==
    Begun(c) => Beyond(schedule[c].order, Last(schedule[c].phases).end)
HookTerm(h) ==
    webhook[h] # Nothing =>
        /\ webhook[h].at \in {"find", "create", "configure"} => Interval[webhook[h].order] = "annual"
        /\ webhook[h].at = "configure" => Beyond(webhook[h].order, webhook[h].first.end)
AccountTerm(a) ==
    account[a] # Nothing =>
        /\ account[a].cancel => Beyond(account[a].order, account[a].date)
        /\ account[a].at = "write" => Beyond(account[a].order, Last(account[a].phases).end)

TermInv ==
    /\ OneOrder
    /\ \A o \in Orders : SubscriptionTerm(o)
    /\ \A c \in Schedules : ScheduleTerm(c)
    /\ \A h \in Webhooks : HookTerm(h)
    /\ \A a \in Accounts : AccountTerm(a)
    /\ row # Nothing => row.term = TermEnd(row.order)

-----------------------------------------------------------------------------
(* Months, phases and their prices                                           *)

LEMMA ContractConstants ==
    /\ Year \in Nat /\ Year > 1 /\ Never \in Nat /\ Horizon \in Nat
    /\ \A p : Months(p) \in Nat /\ Months(p) >= 1
    /\ \A o \in Orders : TermEnd(o) \in Nat /\ Interval[o] \in Prices /\ Ordered[o] \in Nat
BY YearAssumption, OrderAssumption DEF Never, Months, TermEnd, Prices

LEMMA PhasesBegin ==
    ASSUME NEW phases, Phased(phases)
    PROVE  /\ phases \in Seq(Phases) /\ phases # <<>> /\ Last(phases) = phases[Len(phases)]
           /\ Last(phases) \in Phases /\ phases[1] \in Phases
           /\ DOMAIN phases = 1..Len(phases) /\ Len(phases) \in {1, 2}
BY DEF Phased, Last

LEMMA PriceTyped ==
    ASSUME NEW phases, Phased(phases), NEW t \in Nat, Last(phases).end > t
    PROVE  PriceAt(phases, t) \in Prices
  <1>. DEFINE Due(i) == phases[i].end > t /\ \A j \in 1..(i - 1) : phases[j].end <= t
  <1>1. DOMAIN phases = 1..Len(phases) /\ Len(phases) \in {1, 2} /\ phases \in Seq(Phases)
    BY PhasesBegin
  <1>2. \E i \in DOMAIN phases : Due(i)
    <2>1. CASE phases[1].end > t
      BY <1>1, <2>1
    <2>2. CASE ~(phases[1].end > t)
      <3>1. Len(phases) = 2 /\ phases[2].end > t
        BY <1>1, <2>2, PhasesBegin
      <3>2. phases[1].end <= t
        <4>1. phases[1] \in Phases
          BY PhasesBegin
        <4>2. phases[1].end \in Nat
          BY <4>1 DEF Phases
        <4>. QED BY <2>2, <4>2
      <3>. QED BY <1>1, <3>1, <3>2
    <2>. QED BY <2>1, <2>2
  <1>3. PICK i \in DOMAIN phases : PriceAt(phases, t) = phases[i].price
    BY <1>2 DEF PriceAt
  <1>4. phases[i] \in Phases
    BY <1>1, <1>3
  <1>. QED BY <1>3, <1>4 DEF Phases

LEMMA TruncatedPhases ==
    ASSUME NEW phases, Phased(phases), NEW date \in Nat, Truncated(phases, date) # <<>>
    PROVE  /\ Phased(Truncated(phases, date))
           /\ Last(Truncated(phases, date)).end \in {date, Last(phases).end}
  <1>. DEFINE begun == {j \in DOMAIN phases : phases[j].start < date}
              cut == Truncated(phases, date)
              n == IF Len(phases) = 2 /\ phases[2].start < date THEN 2 ELSE 1
  <1>1. /\ DOMAIN phases = 1..Len(phases) /\ Len(phases) \in {1, 2} /\ phases \in Seq(Phases)
        /\ phases[1] \in Phases /\ (Len(phases) = 2 => phases[2] \in Phases)
    BY PhasesBegin
  <1>2. cut = [i \in begun |-> [phases[i] EXCEPT !.end = IF @ < date THEN @ ELSE date]]
    BY DEF Truncated
  <1>3. begun # {}
    <2>1. ASSUME begun = {} PROVE FALSE
      <3>1. cut = [i \in 1..0 |-> [phases[i] EXCEPT !.end = IF @ < date THEN @ ELSE date]]
        BY <1>2, <2>1
      <3>2. cut \in Seq(Phases) /\ Len(cut) = 0
        BY <3>1
      <3>3. cut = <<>>
        BY <3>2, EmptySeq
      <3>. QED BY <3>3
    <2>. QED BY <2>1
  <1>4. begun = 1..n
    <2>1. 1 \in begun
      <3>1. CASE Len(phases) = 1
        BY <1>1, <1>3, <3>1
      <3>2. CASE Len(phases) = 2
        <4>1. phases[1].start < phases[2].start /\ phases[1].start \in Int /\ phases[2].start \in Int
          BY <1>1, <3>2 DEF Phased, Phases
        <4>2. phases[2].start < date => phases[1].start < date
          BY <4>1
        <4>. QED BY <1>1, <1>3, <3>2, <4>2
      <3>. QED BY <1>1, <3>1, <3>2
    <2>. QED BY <1>1, <2>1
  <1>5. n \in {1, 2} /\ n <= Len(phases)
    BY <1>1
  <1>6. cut = [i \in 1..n |-> [phases[i] EXCEPT !.end = IF @ < date THEN @ ELSE date]]
    BY <1>2, <1>4
  <1>7. ASSUME NEW i \in 1..n
        PROVE  /\ cut[i] \in Phases /\ cut[i].start = phases[i].start /\ cut[i].price = phases[i].price
               /\ cut[i].end = (IF phases[i].end < date THEN phases[i].end ELSE date)
               /\ phases[i].start < date
    <2>1. phases[i] \in Phases /\ phases[i].start < date
      BY <1>1, <1>4, <1>5
    <2>2. cut[i] = [phases[i] EXCEPT !.end = IF @ < date THEN @ ELSE date]
      BY <1>6
    <2>. HIDE DEF cut, begun, n
    <2>. QED BY <2>1, <2>2 DEF Phases
  <1>8. cut \in Seq(Phases) /\ Len(cut) = n
    <2>1. cut = [i \in 1..n |-> cut[i]] /\ n \in Nat
      BY <1>5, <1>6
    <2>. HIDE DEF cut, begun, n
    <2>. QED BY <1>7, <2>1
  <1>. HIDE DEF cut, begun
  <1>9. ASSUME NEW i \in 1..n PROVE cut[i].start < cut[i].end
    <2>1. phases[i].start < phases[i].end /\ phases[i] \in Phases
      BY <1>1, <1>5 DEF Phased
    <2>. QED BY <1>7, <2>1 DEF Phases
  <1>10. n = 2 => cut[1].end = cut[2].start /\ cut[2].price = "monthly" /\ Len(phases) = 2
    <2>. SUFFICES ASSUME n = 2 PROVE cut[1].end = cut[2].start /\ cut[2].price = "monthly"
      BY <1>1, <1>5
    <2>1. Len(phases) = 2 /\ phases[1].end = phases[2].start /\ phases[2].price = "monthly"
      BY <1>1, <1>5 DEF Phased
    <2>2. phases[2].start < date /\ cut[2].start = phases[2].start /\ cut[2].price = phases[2].price
      BY <1>7
    <2>3. cut[1].end = (IF phases[1].end < date THEN phases[1].end ELSE date)
      BY <1>7
    <2>. QED BY <2>1, <2>2, <2>3
  <1>11. Phased(cut)
    BY <1>5, <1>8, <1>9, <1>10 DEF Phased
  <1>12. Last(cut).end \in {date, Last(phases).end}
    <2>1. Last(cut) = cut[n] /\ Last(phases) = phases[Len(phases)]
      BY <1>8, <1>11, PhasesBegin
    <2>2. cut[n].end = (IF phases[n].end < date THEN phases[n].end ELSE date)
      BY <1>5, <1>7
    <2>3. CASE n = Len(phases)
      BY <2>1, <2>2, <2>3
    <2>4. CASE n # Len(phases)
      <3>1. n = 1 /\ Len(phases) = 2 /\ ~(phases[2].start < date) /\ phases[1].end = phases[2].start
        BY <1>1, <1>5, <2>4 DEF Phased
      <3>. QED BY <2>1, <2>2, <3>1
    <2>. QED BY <2>3, <2>4
  <1>. QED BY <1>11, <1>12 DEF cut

LEMMA ResumedPhases ==
    ASSUME NEW phases, Phased(phases)
    PROVE  /\ Phased(Resumed(phases)) /\ Len(Resumed(phases)) = 2
           /\ Last(Resumed(phases)).end >= Last(phases).end
  <1>1. CASE Len(phases) = 1
    <2>. DEFINE next == Phase(phases[1].end, phases[1].end + 1, "monthly")
                longer == Append(phases, next)
    <2>1. phases \in Seq(Phases) /\ phases[1] \in Phases /\ phases[1].start < phases[1].end
      BY <1>1, PhasesBegin DEF Phased
    <2>2. /\ next \in Phases /\ next.start = phases[1].end /\ next.end = phases[1].end + 1
          /\ next.price = "monthly" /\ phases[1].end \in Nat
      BY <2>1 DEF Phase, Phases, Prices
    <2>. HIDE DEF next
    <2>3. longer \in Seq(Phases) /\ Len(longer) = 2 /\ longer[1] = phases[1] /\ longer[2] = next
      <3>. HIDE DEF Phases
      <3>1. /\ Append(phases, next) \in Seq(Phases) /\ Len(Append(phases, next)) = Len(phases) + 1
            /\ \A i \in 1..Len(phases) : Append(phases, next)[i] = phases[i]
            /\ Append(phases, next)[Len(phases) + 1] = next
        BY <2>1, <2>2, AppendProperties
      <3>2. Append(phases, next)[1] = phases[1] /\ Append(phases, next)[2] = next
        BY <1>1, <3>1
      <3>. QED BY <1>1, <3>1, <3>2
    <2>. HIDE DEF longer
    <2>4. Phased(longer)
      BY <2>1, <2>2, <2>3 DEF Phased
    <2>5. Last(longer) = next /\ Last(phases) = phases[1]
      BY <1>1, <2>3, <2>4, PhasesBegin
    <2>6. Resumed(phases) = longer
      BY <1>1 DEF Resumed, longer, next
    <2>. QED BY <2>2, <2>3, <2>4, <2>5, <2>6
  <1>2. CASE Len(phases) # 1
    <2>1. Len(phases) = 2 /\ Resumed(phases) = phases /\ Last(phases).end \in Nat
      BY <1>2, PhasesBegin DEF Resumed, Phases
    <2>. QED BY <2>1
  <1>. QED BY <1>1, <1>2

LEMMA ConfiguredPhases ==
    ASSUME NEW first \in Phases, first.start < first.end
    PROVE  /\ Phased(AnnualThenMonthly(first)) /\ Len(AnnualThenMonthly(first)) = 2
           /\ Last(AnnualThenMonthly(first)).end >= first.end
  <1>. DEFINE begin == [first EXCEPT !.price = "annual"]
              next == Phase(first.end, first.end + 1, "monthly")
              phases == AnnualThenMonthly(first)
  <1>1. /\ begin \in Phases /\ begin.start = first.start /\ begin.end = first.end
        /\ next \in Phases /\ next.start = first.end /\ next.end = first.end + 1
        /\ next.price = "monthly" /\ first.end \in Nat
    BY DEF Phase, Phases, Prices
  <1>2. phases = <<begin, next>>
    BY DEF AnnualThenMonthly
  <1>. HIDE DEF begin, next, phases
  <1>3. phases \in Seq(Phases) /\ Len(phases) = 2 /\ phases[1] = begin /\ phases[2] = next
    BY <1>1, <1>2
  <1>4. Phased(phases)
    BY <1>1, <1>3 DEF Phased
  <1>5. Last(phases) = next
    BY <1>3, <1>4, PhasesBegin
  <1>. QED BY <1>1, <1>3, <1>4, <1>5 DEF phases

-----------------------------------------------------------------------------
(* The steps keep the rows' types                                            *)

LEMMA ContractRows ==
    ASSUME ContractInv
    PROVE  /\ now \in Nat /\ subscription \in [Orders -> SubscriptionRow \cup {NoSubscription}]
           /\ schedule \in [Schedules -> ScheduleRow \cup {NoSchedule}] /\ lead \in [Orders -> LeadRow]
           /\ row \in CustomerRow \cup {Nothing} /\ webhook \in [Webhooks -> HookRow \cup {Nothing}]
           /\ account \in [Accounts -> AccountRow \cup {Nothing}]
           /\ configured \subseteq {c \in Schedules : Begun(c)}
           /\ \A o \in Orders : Subscribed(o) => subscription[o] \in SubscriptionRow
           /\ \A o \in Orders : Running(o) => Subscribed(o)
           /\ \A c \in Schedules : Begun(c) => schedule[c] \in ScheduleRow
           /\ \A c \in MaybeSchedule : Active(c) => c \in Schedules /\ Begun(c)
           /\ \A h \in Webhooks : webhook[h] # Nothing => webhook[h] \in HookRow
           /\ \A a \in Accounts : account[a] # Nothing => account[a] \in AccountRow
  <1>1. ContractTypes
    BY DEF ContractInv
  <1>2. \A o \in Orders : Running(o) => Subscribed(o)
    BY DEF Running, Subscribed, NoSubscription
  <1>3. \A c \in MaybeSchedule : Active(c) => c \in Schedules /\ Begun(c)
    BY DEF Active, MaybeSchedule, Begun, NoSchedule
  <1>4. \A o \in Orders : Subscribed(o) => subscription[o] \in SubscriptionRow
    BY <1>1 DEF ContractTypes, Subscribed
  <1>5. \A c \in Schedules : Begun(c) => schedule[c] \in ScheduleRow
    BY <1>1 DEF ContractTypes, Begun
  <1>6. /\ \A h \in Webhooks : webhook[h] # Nothing => webhook[h] \in HookRow
        /\ \A a \in Accounts : account[a] # Nothing => account[a] \in AccountRow
    BY <1>1 DEF ContractTypes
  <1>. QED BY <1>1, <1>2, <1>3, <1>4, <1>5, <1>6 DEF ContractTypes

\* What a step has to show of the rows it writes.
LEMMA ContractFrame ==
    ASSUME ContractInv, ContractTypes',
           \A o \in Orders : Subscribed(o) => Subscribed(o)',
           \A c \in Schedules : \/ schedule'[c] = schedule[c] /\ (c \in configured' => c \in configured)
                                \/ ScheduleOK(c)',
           \A h \in Webhooks : webhook'[h] = webhook[h] \/ HookOK(h)',
           \A a \in Accounts : account'[a] = account[a] \/ AccountOK(a)',
           row' = row \/ row' = Nothing \/ Subscribed(row.order)'
    PROVE  ContractInv'
  <1>1. ASSUME NEW c \in Schedules PROVE ScheduleOK(c)'
    <2>1. ASSUME schedule'[c] = schedule[c], c \in configured' => c \in configured PROVE ScheduleOK(c)'
      <3>1. ScheduleOK(c) /\ (Begun(c) => schedule[c].order \in Orders)
        BY ContractRows DEF ContractInv, ScheduleRow
      <3>. QED BY <2>1, <3>1 DEF ScheduleOK, Begun
    <2>. QED BY <2>1
  <1>2. ASSUME NEW h \in Webhooks PROVE HookOK(h)'
    <2>1. ASSUME webhook'[h] = webhook[h] PROVE HookOK(h)'
      <3>1. HookOK(h) /\ (webhook[h] # Nothing => webhook[h].order \in Orders)
        BY ContractRows DEF ContractInv, HookRow
      <3>. QED BY <2>1, <3>1 DEF HookOK
    <2>. QED BY <2>1
  <1>3. ASSUME NEW a \in Accounts PROVE AccountOK(a)'
    <2>1. ASSUME account'[a] = account[a] PROVE AccountOK(a)'
      <3>1. AccountOK(a) /\ (account[a] # Nothing => account[a].order \in Orders)
        BY ContractRows DEF ContractInv, AccountRow
      <3>. QED BY <2>1, <3>1 DEF AccountOK
    <2>. QED BY <2>1
  <1>4. row' # Nothing => Subscribed(row.order)'
    <2>1. row # Nothing => Subscribed(row.order) /\ row.order \in Orders
      BY ContractRows DEF ContractInv, CustomerRow
    <2>. QED BY <2>1
  <1>. QED BY <1>1, <1>2, <1>3, <1>4 DEF ContractInv

LEMMA ContractInitially == ContractInit => ContractInv
  <1>. SUFFICES ASSUME ContractInit PROVE ContractInv
    OBVIOUS
  <1>1. ContractTypes
    BY DEF ContractInit, ContractTypes, LeadRow, MaybeSchedule
  <1>2. (\A c \in Schedules : ScheduleOK(c)) /\ (\A h \in Webhooks : HookOK(h)) /\ (\A a \in Accounts : AccountOK(a))
    BY DEF ContractInit, ScheduleOK, HookOK, AccountOK, Begun
  <1>. QED BY <1>1, <1>2 DEF ContractInv, ContractInit

\* An order is completed.
LEMMA SubscribeEffect ==
    ASSUME ContractInv, NEW o \in Orders, Subscribe(o)
    PROVE  /\ subscription' \in [Orders -> SubscriptionRow \cup {NoSubscription}]
           /\ \A p \in Orders \ {o} : subscription'[p] = subscription[p]
           /\ subscription'[o] = [state |-> "active", since |-> now, price |-> Interval[o],
                                  cancelAt |-> Never, until |-> now + Months(Interval[o]),
                                  schedule |-> Nothing]
           /\ Subscribed(o)' /\ ~Subscribed(o) /\ now >= Ordered[o]
           /\ Cardinality({p \in Orders : Subscribed(p)}) < MaxSubscriptions
           /\ UNCHANGED <<now, schedule, configured, lead, row, webhook, account>>
  <1>. DEFINE new == [state |-> "active", since |-> now, price |-> Interval[o], cancelAt |-> Never,
                      until |-> now + Months(Interval[o]), schedule |-> Nothing]
  <1>1. new \in SubscriptionRow /\ new.state = "active"
    BY ContractRows, ContractConstants DEF SubscriptionRow, MaybeSchedule
  <1>2. subscription' = [subscription EXCEPT ![o] = new] /\ ~Subscribed(o)
    BY DEF Subscribe, Subscribed
  <1>3. new # NoSubscription
    BY <1>1 DEF NoSubscription
  <1>4. UNCHANGED <<now, schedule, configured, lead, row, webhook, account>> /\ now >= Ordered[o]
    BY DEF Subscribe
  <1>5. Cardinality({p \in Orders : Subscribed(p)}) < MaxSubscriptions
    BY DEF Subscribe, Subscribed
  <1>. HIDE DEF new
  <1>6. /\ subscription' \in [Orders -> SubscriptionRow \cup {NoSubscription}]
        /\ \A p \in Orders \ {o} : subscription'[p] = subscription[p]
        /\ subscription'[o] = new
    BY <1>1, <1>2, ContractRows
  <1>. QED BY <1>2, <1>3, <1>4, <1>5, <1>6 DEF new, Subscribed

LEMMA SubscribeKeeps ==
    ASSUME ContractInv, NEW o \in Orders, Subscribe(o)
    PROVE  ContractInv'
  <1>1. ContractTypes'
    BY ContractRows, SubscribeEffect DEF ContractTypes, Begun
  <1>2. \A p \in Orders : Subscribed(p) => Subscribed(p)'
    BY SubscribeEffect DEF Subscribed
  <1>. QED BY <1>1, <1>2, SubscribeEffect, ContractFrame

\* What Stripe makes of a subscription at a date.
LEMMA AtDateEffect ==
    ASSUME ContractInv, NEW o \in Orders, NEW t \in Nat
    PROVE  LET s == subscription[o]
               r == AtDate(o, t)
           IN  /\ ~Subscribed(o) => r = s
               /\ Subscribed(o) =>
                     /\ r \in SubscriptionRow
                     /\ r.cancelAt = s.cancelAt /\ r.schedule \in {s.schedule, Nothing}
                     /\ r.until = s.until \/ (r.until >= t /\ s.until <= t)
                     /\ r.state = "ended" =>
                           \/ s.state = "ended"
                           \/ s.cancelAt <= t
                           \/ Active(s.schedule) /\ Last(schedule[s.schedule].phases).end <= t
  <1>. DEFINE s == subscription[o]
              Good(r) == /\ r \in SubscriptionRow
                         /\ r.cancelAt = s.cancelAt /\ r.schedule \in {s.schedule, Nothing}
                         /\ r.until = s.until \/ (r.until >= t /\ s.until <= t)
  <1>1. ~Subscribed(o) => AtDate(o, t) = s
    BY DEF AtDate, Subscribed, NoSubscription
  <1>2. ASSUME Subscribed(o), NEW price \in Prices, NEW c \in {s.schedule, Nothing}
        PROVE  /\ Good(Renewed([s EXCEPT !.price = price], t)) /\ Good(Renewed(s, t))
               /\ Good(Renewed([s EXCEPT !.price = price, !.schedule = Nothing], t)) /\ Good(Ended(s))
               /\ Renewed([s EXCEPT !.price = price], t).state = s.state /\ Renewed(s, t).state = s.state
               /\ Renewed([s EXCEPT !.price = price, !.schedule = Nothing], t).state = s.state
    <2>1. s \in SubscriptionRow
      BY <1>2, ContractRows
    <2>2. ASSUME NEW r \in SubscriptionRow, r.cancelAt = s.cancelAt, r.schedule \in {s.schedule, Nothing},
                 r.until = s.until, r.state = s.state
          PROVE  Good(Renewed(r, t)) /\ Renewed(r, t).state = s.state
      <3>1. CASE r.until > t
        BY <2>2, <3>1 DEF Renewed
      <3>2. CASE ~(r.until > t)
        <4>. DEFINE u == t + Months(r.price)
        <4>1. u \in Nat /\ u >= t
          BY ContractConstants
        <4>2. Renewed(r, t) = [r EXCEPT !.until = u] /\ s.until <= t
          BY <2>1, <2>2, <3>2 DEF Renewed, SubscriptionRow
        <4>. HIDE DEF u
        <4>. QED BY <2>2, <4>1, <4>2 DEF SubscriptionRow
      <3>. QED BY <3>1, <3>2
    <2>3. LET r == [s EXCEPT !.price = price]
          IN  r \in SubscriptionRow /\ r.cancelAt = s.cancelAt /\ r.schedule = s.schedule
              /\ r.until = s.until /\ r.state = s.state
      BY <2>1 DEF SubscriptionRow
    <2>4. LET r == [s EXCEPT !.price = price, !.schedule = Nothing]
          IN  r \in SubscriptionRow /\ r.cancelAt = s.cancelAt /\ r.schedule = Nothing
              /\ r.until = s.until /\ r.state = s.state
      BY <2>1 DEF SubscriptionRow, MaybeSchedule
    <2>5. Good(Ended(s))
      BY <2>1 DEF Ended, SubscriptionRow, MaybeSchedule
    <2>. HIDE DEF s, Good
    <2>. QED BY <2>1, <2>2, <2>3, <2>4, <2>5
  <1>3. ASSUME Subscribed(o)
        PROVE  /\ Good(AtDate(o, t))
               /\ AtDate(o, t).state = "ended" =>
                     \/ s.state = "ended"
                     \/ s.cancelAt <= t
                     \/ Active(s.schedule) /\ Last(schedule[s.schedule].phases).end <= t
    <2>1. s \in SubscriptionRow
      BY <1>3, ContractRows
    <2>2. CASE s.state # "active"
      BY <2>1, <2>2 DEF AtDate, SubscriptionRow
    <2>3. CASE s.state = "active" /\ ~Active(s.schedule)
      <3>1. AtDate(o, t) = IF s.cancelAt <= t THEN Ended(s) ELSE Renewed(s, t)
        BY <2>3 DEF AtDate
      <3>2. Good(Ended(s)) /\ Good(Renewed(s, t)) /\ Renewed(s, t).state = s.state
        BY <1>2, <1>3 DEF Prices
      <3>. HIDE DEF s, Good
      <3>. QED BY <2>3, <3>1, <3>2
    <2>4. CASE s.state = "active" /\ Active(s.schedule)
      <3>. DEFINE c == s.schedule
                  phases == schedule[c].phases
      <3>1. c \in Schedules /\ Begun(c) /\ schedule[c] \in ScheduleRow /\ Phased(phases)
        <4>1. c \in MaybeSchedule
          BY <2>1 DEF SubscriptionRow
        <4>2. c \in Schedules /\ Begun(c) /\ schedule[c] \in ScheduleRow
          BY <2>4, <4>1, ContractRows
        <4>. QED BY <4>2 DEF ContractInv, ScheduleOK
      <3>2. AtDate(o, t) =
               IF Runs(c, t) THEN Renewed([s EXCEPT !.price = PriceAt(phases, t)], t)
               ELSE IF schedule[c].end = "cancel" THEN Ended(s)
               ELSE Renewed([s EXCEPT !.price = Last(phases).price, !.schedule = Nothing], t)
        BY <2>4 DEF AtDate
      <3>3. CASE Runs(c, t)
        <4>1. PriceAt(phases, t) \in Prices
          BY <3>1, <3>3, PriceTyped DEF Runs
        <4>2. /\ Good(Renewed([s EXCEPT !.price = PriceAt(phases, t)], t))
              /\ Renewed([s EXCEPT !.price = PriceAt(phases, t)], t).state = s.state
          BY <1>2, <1>3, <4>1
        <4>. HIDE DEF s, Good, phases, c
        <4>. QED BY <2>4, <3>2, <3>3, <4>2
      <3>4. CASE ~Runs(c, t)
        <4>1. Last(phases).price \in Prices /\ Last(phases).end <= t
          BY <2>4, <3>1, <3>4, PhasesBegin DEF Runs, Phases
        <4>2. /\ Good(Renewed([s EXCEPT !.price = Last(phases).price, !.schedule = Nothing], t))
              /\ Renewed([s EXCEPT !.price = Last(phases).price, !.schedule = Nothing], t).state = s.state
              /\ Good(Ended(s))
          BY <1>2, <1>3, <4>1
        <4>3. Active(c)
          BY <2>4
        <4>. HIDE DEF Good
        <4>. QED BY <2>4, <3>2, <3>4, <4>1, <4>2, <4>3
      <3>. QED BY <3>3, <3>4
    <2>. QED BY <2>2, <2>3, <2>4
  <1>. QED BY <1>1, <1>3

LEMMA PassTimeEffect ==
    ASSUME ContractInv, PassTime
    PROVE  /\ now' = now + 1 /\ now' \in Nat
           /\ subscription' \in [Orders -> SubscriptionRow \cup {NoSubscription}]
           /\ \A o \in Orders : subscription'[o] = AtDate(o, now') /\ (Subscribed(o)' <=> Subscribed(o))
           /\ schedule' \in [Schedules -> ScheduleRow \cup {NoSchedule}]
           /\ \A c \in Schedules : (Begun(c)' <=> Begun(c))
           /\ \A c \in Schedules : Begun(c) =>
                /\ schedule'[c].phases = schedule[c].phases /\ schedule'[c].order = schedule[c].order
                /\ schedule'[c].end = schedule[c].end
           /\ \A h \in Webhooks : webhook[h] = Nothing
           /\ UNCHANGED <<configured, lead, row, webhook, account>>
  <1>1. /\ now' = now + 1 /\ subscription' = [o \in Orders |-> AtDate(o, now')]
        /\ schedule' = [c \in Schedules |->
              IF Active(c) /\ ~Runs(c, now') THEN [schedule[c] EXCEPT !.state = "over"] ELSE schedule[c]]
        /\ UNCHANGED <<configured, lead, row, webhook, account>>
        /\ \A h \in Webhooks : webhook[h] = Nothing
    BY DEF PassTime
  <1>2. now' \in Nat
    BY <1>1, ContractRows
  <1>3. ASSUME NEW o \in Orders
        PROVE  /\ subscription'[o] \in SubscriptionRow \cup {NoSubscription}
               /\ Subscribed(o)' <=> Subscribed(o)
    <2>1. subscription'[o] = AtDate(o, now')
      BY <1>1
    <2>2. CASE Subscribed(o)
      <3>1. subscription'[o] \in SubscriptionRow
        BY <1>2, <2>1, <2>2, AtDateEffect
      <3>. QED BY <2>2, <3>1 DEF Subscribed, SubscriptionRow, NoSubscription
    <2>3. CASE ~Subscribed(o)
      BY <1>2, <2>1, <2>3, AtDateEffect DEF Subscribed
    <2>. QED BY <2>2, <2>3
  <1>4. ASSUME NEW c \in Schedules
        PROVE  /\ schedule'[c] \in ScheduleRow \cup {NoSchedule}
               /\ Begun(c)' <=> Begun(c)
               /\ Begun(c) => /\ schedule'[c].phases = schedule[c].phases
                              /\ schedule'[c].order = schedule[c].order /\ schedule'[c].end = schedule[c].end
    <2>1. CASE Active(c) /\ ~Runs(c, now')
      <3>1. schedule'[c] = [schedule[c] EXCEPT !.state = "over"]
        BY <1>1, <2>1
      <3>2. schedule[c] \in ScheduleRow /\ Begun(c)
        BY <2>1, ContractRows DEF MaybeSchedule
      <3>3. /\ schedule'[c] \in ScheduleRow /\ schedule'[c].phases = schedule[c].phases
            /\ schedule'[c].order = schedule[c].order /\ schedule'[c].end = schedule[c].end
        BY <3>1, <3>2 DEF ScheduleRow
      <3>4. schedule'[c] # NoSchedule
        BY <3>3 DEF ScheduleRow, NoSchedule
      <3>. QED BY <3>2, <3>3, <3>4 DEF Begun
    <2>2. CASE ~(Active(c) /\ ~Runs(c, now'))
      <3>1. schedule'[c] = schedule[c]
        BY <1>1, <2>2
      <3>. QED BY <3>1, ContractRows DEF Begun
    <2>. QED BY <2>1, <2>2
  <1>. QED BY <1>1, <1>2, <1>3, <1>4

LEMMA PassTimeKeeps ==
    ASSUME ContractInv, PassTime
    PROVE  ContractInv'
  <1>1. ContractTypes'
    BY ContractRows, PassTimeEffect DEF ContractTypes
  <1>2. \A o \in Orders : Subscribed(o) => Subscribed(o)'
    BY PassTimeEffect
  <1>3. ASSUME NEW c \in Schedules PROVE ScheduleOK(c)'
    <2>1. ScheduleOK(c) /\ (Begun(c) => schedule[c].order \in Orders)
      BY ContractRows DEF ContractInv, ScheduleRow
    <2>. QED BY <1>2, <2>1, PassTimeEffect DEF ScheduleOK
  <1>. QED BY <1>1, <1>2, <1>3, PassTimeEffect, ContractFrame

\* What updating an active schedule changes.
LEMMA PutEffect ==
    ASSUME ContractInv, NEW c \in MaybeSchedule, NEW phases, Phased(phases), NEW end \in {"release", "cancel"},
           PutSchedule(c, phases, end)
    PROVE  /\ c \in Schedules /\ Begun(c) /\ Subscribed(schedule[c].order) /\ schedule[c].order \in Orders
           /\ schedule' \in [Schedules -> ScheduleRow \cup {NoSchedule}]
           /\ schedule'[c].phases = phases /\ schedule'[c].end = end /\ schedule'[c].order = schedule[c].order
           /\ \A d \in Schedules \ {c} : schedule'[d] = schedule[d]
           /\ \A d \in Schedules : Begun(d)' <=> Begun(d)
           /\ subscription' \in [Orders -> SubscriptionRow \cup {NoSubscription}]
           /\ \A o \in Orders : (Subscribed(o)' <=> Subscribed(o))
           /\ \A o \in Orders : Subscribed(o) =>
                /\ subscription'[o].cancelAt = subscription[o].cancelAt
                /\ subscription'[o].until = subscription[o].until
                /\ subscription'[o].state = subscription[o].state
                /\ subscription'[o].schedule = subscription[o].schedule
  <1>. DEFINE o == schedule[c].order
              price == IF Last(phases).end > now THEN PriceAt(phases, now) ELSE subscription[o].price
  <1>1. c \in Schedules /\ Begun(c) /\ schedule[c] \in ScheduleRow
    BY ContractRows DEF PutSchedule
  <1>2. Subscribed(o) /\ o \in Orders /\ subscription[o] \in SubscriptionRow
    <2>1. Subscribed(o) /\ o \in Orders
      BY <1>1 DEF ContractInv, ScheduleOK, ScheduleRow
    <2>. QED BY <2>1, ContractRows
  <1>3. phases \in Seq(Phases)
    BY DEF Phased
  <1>4. price \in Prices
    BY <1>2, PriceTyped, ContractRows DEF SubscriptionRow
  <1>5. /\ schedule' = [schedule EXCEPT ![c].phases = phases, ![c].end = end]
        /\ subscription' = [subscription EXCEPT ![o].price = price]
    BY <1>2, ContractRows DEF PutSchedule
  <1>6. /\ schedule'[c].phases = phases /\ schedule'[c].end = end /\ schedule'[c].order = schedule[c].order
        /\ schedule'[c] \in ScheduleRow
        /\ schedule' \in [Schedules -> ScheduleRow \cup {NoSchedule}]
        /\ \A d \in Schedules \ {c} : schedule'[d] = schedule[d]
    <2>. DEFINE half == [schedule[c] EXCEPT !.end = end]
                put == [schedule[c] EXCEPT !.phases = phases, !.end = end]
    <2>1. half \in ScheduleRow
      BY <1>1 DEF ScheduleRow
    <2>2. put = [half EXCEPT !.phases = phases]
      BY <1>1 DEF ScheduleRow
    <2>3. put \in ScheduleRow
      <3>. HIDE DEF half, put
      <3>. QED BY <1>3, <2>1, <2>2 DEF ScheduleRow
    <2>4. put.phases = phases /\ put.end = end /\ put.order = schedule[c].order
      BY <1>1 DEF ScheduleRow
    <2>5. schedule' = [schedule EXCEPT ![c] = put]
      BY <1>1, <1>5, ContractRows
    <2>. HIDE DEF put
    <2>. QED BY <1>1, <2>3, <2>4, <2>5, ContractRows
  <1>7. schedule'[c] # NoSchedule
    BY <1>6 DEF ScheduleRow, NoSchedule
  <1>. HIDE DEF price
  <1>8. LET r == [subscription[o] EXCEPT !.price = price]
        IN  /\ r \in SubscriptionRow /\ r.cancelAt = subscription[o].cancelAt /\ r.until = subscription[o].until
            /\ r.state = subscription[o].state /\ r.schedule = subscription[o].schedule
            /\ r # NoSubscription
    BY <1>2, <1>4 DEF SubscriptionRow, NoSubscription
  <1>9. /\ subscription'[o] = [subscription[o] EXCEPT !.price = price]
        /\ \A p \in Orders \ {o} : subscription'[p] = subscription[p]
        /\ subscription' \in [Orders -> SubscriptionRow \cup {NoSubscription}]
    <2>. DEFINE r == [subscription[o] EXCEPT !.price = price]
    <2>1. subscription' = [subscription EXCEPT ![o] = r] /\ r \in SubscriptionRow
      BY <1>2, <1>5, <1>8, ContractRows
    <2>2. subscription'[o] = r /\ (\A p \in Orders \ {o} : subscription'[p] = subscription[p])
             /\ subscription' \in [Orders -> SubscriptionRow \cup {NoSubscription}]
      <3>. HIDE DEF r, o
      <3>. QED BY <1>2, <2>1, ContractRows
    <2>. QED BY <2>2
  <1>. HIDE DEF o
  <1>10. \A d \in Schedules : Begun(d)' <=> Begun(d)
    BY <1>1, <1>6, <1>7 DEF Begun
  <1>11. \A p \in Orders : (Subscribed(p)' <=> Subscribed(p))
    BY <1>2, <1>8, <1>9 DEF Subscribed
  <1>12. \A p \in Orders : Subscribed(p) =>
                /\ subscription'[p].cancelAt = subscription[p].cancelAt
                /\ subscription'[p].until = subscription[p].until
                /\ subscription'[p].state = subscription[p].state
                /\ subscription'[p].schedule = subscription[p].schedule
    BY <1>8, <1>9
  <1>. QED BY <1>1, <1>2, <1>6, <1>9, <1>10, <1>11, <1>12 DEF o

HookBecomes(h, record) ==
    /\ webhook' \in [Webhooks -> HookRow \cup {Nothing}] /\ webhook'[h] = record
    /\ \A g \in Webhooks \ {h} : webhook'[g] = webhook[g]

LEMMA HookGets ==
    ASSUME ContractInv, NEW h \in Webhooks, NEW record \in HookRow \cup {Nothing},
           webhook' = [webhook EXCEPT ![h] = record]
    PROVE  HookBecomes(h, record)
BY ContractRows DEF HookBecomes

LEMMA HookMoves ==
    ASSUME ContractInv, NEW h \in Webhooks, webhook[h] # Nothing,
           NEW at \in {"find", "create", "configure", "lead", "row", "sync"},
           NEW c \in MaybeSchedule, NEW first \in Phases \cup {Nothing}
    PROVE  /\ webhook[h] \in HookRow
           /\ webhook' = Set(webhook, h, at) => HookBecomes(h, [webhook[h] EXCEPT !.at = at])
           /\ webhook' = [webhook EXCEPT ![h].schedule = c, ![h].at = at] =>
                 HookBecomes(h, [webhook[h] EXCEPT !.at = at, !.schedule = c])
           /\ webhook' = [webhook EXCEPT ![h].first = first, ![h].at = at] =>
                 HookBecomes(h, [webhook[h] EXCEPT !.at = at, !.first = first])
           /\ webhook' = [webhook EXCEPT ![h].schedule = c, ![h].first = first, ![h].at = at] =>
                 HookBecomes(h, [webhook[h] EXCEPT !.at = at, !.schedule = c, !.first = first])
  <1>1. webhook[h] \in HookRow
    BY ContractRows
  <1>2. ASSUME NEW r \in HookRow
        PROVE  /\ [r EXCEPT !.at = at] \in HookRow /\ [r EXCEPT !.schedule = c] \in HookRow
               /\ [r EXCEPT !.first = first] \in HookRow
    BY DEF HookRow
  <1>3. ASSUME webhook' = Set(webhook, h, at)
        PROVE  HookBecomes(h, [webhook[h] EXCEPT !.at = at])
    <2>1. webhook' = [webhook EXCEPT ![h] = [webhook[h] EXCEPT !.at = at]]
      BY <1>3, ContractRows DEF Set
    <2>. QED BY <1>1, <1>2, <2>1, HookGets
  <1>4. ASSUME NEW r \in HookRow
        PROVE  /\ [r EXCEPT !.at = at, !.schedule = c] = [[r EXCEPT !.at = at] EXCEPT !.schedule = c]
               /\ [r EXCEPT !.schedule = c, !.at = at] = [[r EXCEPT !.at = at] EXCEPT !.schedule = c]
               /\ [r EXCEPT !.at = at, !.first = first] = [[r EXCEPT !.at = at] EXCEPT !.first = first]
               /\ [r EXCEPT !.first = first, !.at = at] = [[r EXCEPT !.at = at] EXCEPT !.first = first]
    BY DEF HookRow
  <1>5. ASSUME NEW r \in HookRow
        PROVE  /\ [r EXCEPT !.at = at, !.schedule = c, !.first = first] =
                     [[[r EXCEPT !.at = at] EXCEPT !.schedule = c] EXCEPT !.first = first]
               /\ [r EXCEPT !.schedule = c, !.first = first, !.at = at] =
                     [[[r EXCEPT !.at = at] EXCEPT !.schedule = c] EXCEPT !.first = first]
    BY DEF HookRow
  <1>6. ASSUME webhook' = [webhook EXCEPT ![h].schedule = c, ![h].at = at]
        PROVE  HookBecomes(h, [webhook[h] EXCEPT !.at = at, !.schedule = c])
    <2>1. webhook' = [webhook EXCEPT ![h] = [webhook[h] EXCEPT !.schedule = c, !.at = at]]
      BY <1>6, ContractRows
    <2>. QED BY <1>1, <1>2, <1>4, <2>1, HookGets
  <1>7. ASSUME webhook' = [webhook EXCEPT ![h].first = first, ![h].at = at]
        PROVE  HookBecomes(h, [webhook[h] EXCEPT !.at = at, !.first = first])
    <2>1. webhook' = [webhook EXCEPT ![h] = [webhook[h] EXCEPT !.first = first, !.at = at]]
      BY <1>7, ContractRows
    <2>. QED BY <1>1, <1>2, <1>4, <2>1, HookGets
  <1>8. ASSUME webhook' = [webhook EXCEPT ![h].schedule = c, ![h].first = first, ![h].at = at]
        PROVE  HookBecomes(h, [webhook[h] EXCEPT !.at = at, !.schedule = c, !.first = first])
    <2>1. webhook' = [webhook EXCEPT ![h] = [webhook[h] EXCEPT !.schedule = c, !.first = first, !.at = at]]
      BY <1>8, ContractRows
    <2>. QED BY <1>1, <1>2, <1>5, <2>1, HookGets
  <1>. QED BY <1>1, <1>3, <1>6, <1>7, <1>8

LEMMA HookFrame ==
    ASSUME ContractInv, NEW h \in Webhooks, NEW record, HookBecomes(h, record),
           UNCHANGED <<now, subscription, schedule, account>>, configured' = configured,
           lead' \in [Orders -> LeadRow], row' \in CustomerRow \cup {Nothing},
           record # Nothing => /\ record.order \in Orders /\ Subscribed(record.order)
                               /\ record.at = "configure" => record.first \in Phases /\ record.first.start < record.first.end,
           row' = row \/ row' = Nothing \/ (row'.order \in Orders /\ \E o \in Orders : o = row'.order /\ Subscribed(o))
    PROVE  ContractInv'
  <1>1. ContractTypes'
    BY ContractRows DEF ContractTypes, HookBecomes, Begun
  <1>2. HookOK(h)'
    BY DEF HookOK, HookBecomes, Subscribed
  <1>3. row' = row \/ row' = Nothing \/ Subscribed(row.order)'
    BY DEF Subscribed
  <1>. QED BY <1>1, <1>2, <1>3, ContractFrame DEF HookBecomes, Subscribed

LEMMA EventKeeps ==
    ASSUME ContractInv, NEW h \in Webhooks, NEW o \in Orders,
           CheckoutCompleted(h, o) \/ InvoicePaid(h, o) \/ SubscriptionUpdated(h, o)
    PROVE  /\ ContractInv'
           /\ \E record \in HookRow :
                /\ HookBecomes(h, record) /\ record.order = o /\ Subscribed(o)
                /\ record.at \in {"find", "create", "configure"} => Interval[o] = "annual"
                /\ record.at # "configure"
           /\ UNCHANGED <<now, stripeVars, lead, row, account>>
  <1>1. Subscribed(o) /\ subscription[o] \in SubscriptionRow /\ lead[o] \in LeadRow
        /\ UNCHANGED <<now, stripeVars, lead, row, account>>
    BY ContractRows DEF CheckoutCompleted, InvoicePaid, SubscriptionUpdated, Subscribed
  <1>2. \E record \in HookRow :
           /\ webhook' = [webhook EXCEPT ![h] = record] /\ record.order = o /\ record.at # "configure"
           /\ record.at \in {"find", "create", "configure"} => Interval[o] = "annual"
    <2>1. CASE CheckoutCompleted(h, o)
      <3>. DEFINE record == [at |-> IF Interval[o] = "annual" THEN "find" ELSE "lead", for |-> "checkout",
                             order |-> o, schedule |-> Nothing, first |-> Nothing, until |-> Nothing]
      <3>1. record \in HookRow
        BY DEF HookRow, MaybeSchedule, MaybeDate
      <3>2. webhook' = [webhook EXCEPT ![h] = record]
        BY <2>1 DEF CheckoutCompleted, StartWebhook
      <3>. QED BY <3>1, <3>2
    <2>2. CASE InvoicePaid(h, o)
      <3>. DEFINE known == IF subscription[o].schedule # Nothing
                           THEN subscription[o].schedule ELSE lead[o].schedule
                  fresh == Interval[o] = "annual" /\ known = Nothing
                  record == [at |-> IF fresh THEN "find" ELSE "row", for |-> "payment",
                             order |-> o, schedule |-> known, first |-> Nothing,
                             until |-> subscription[o].until]
      <3>1. known \in MaybeSchedule /\ subscription[o].until \in Nat
        BY <1>1 DEF SubscriptionRow, LeadRow
      <3>2. record \in HookRow
        BY <3>1 DEF HookRow, MaybeDate
      <3>3. webhook' = [webhook EXCEPT ![h] = record]
        BY <2>2 DEF InvoicePaid, StartWebhook
      <3>. QED BY <3>2, <3>3
    <2>3. CASE SubscriptionUpdated(h, o)
      <3>. DEFINE record == [at |-> "sync", for |-> "update", order |-> o, schedule |-> Nothing,
                             first |-> Nothing, until |-> subscription[o].until]
      <3>1. record \in HookRow
        BY <1>1 DEF HookRow, MaybeSchedule, MaybeDate, SubscriptionRow
      <3>2. webhook' = [webhook EXCEPT ![h] = record]
        BY <2>3 DEF SubscriptionUpdated, StartWebhook
      <3>. QED BY <3>1, <3>2
    <2>. QED BY <2>1, <2>2, <2>3
  <1>3. PICK record \in HookRow :
           /\ HookBecomes(h, record) /\ record.order = o /\ record.at # "configure"
           /\ record.at \in {"find", "create", "configure"} => Interval[o] = "annual"
    BY <1>2, HookGets
  <1>4. ContractInv'
    BY <1>1, <1>3, HookFrame, ContractRows
  <1>. QED BY <1>1, <1>3, <1>4

LEMMA FindKeeps ==
    ASSUME ContractInv, NEW h \in Webhooks, FindSchedule(h)
    PROVE  /\ ContractInv' /\ webhook[h] # Nothing /\ webhook[h].at = "find"
           /\ \E record \in HookRow :
                /\ HookBecomes(h, record) /\ record.order = webhook[h].order
                /\ record.at # "configure"
           /\ UNCHANGED <<now, stripeVars, lead, row, account>>
  <1>. DEFINE o == webhook[h].order
              c == subscription[o].schedule
  <1>1. /\ webhook[h] # Nothing /\ webhook[h].at = "find" /\ webhook[h] \in HookRow
        /\ UNCHANGED <<now, stripeVars, lead, row, account>>
    BY ContractRows DEF FindSchedule, WebhookAt
  <1>2. o \in Orders /\ Subscribed(o)
    BY <1>1 DEF ContractInv, HookOK, HookRow
  <1>3. c \in MaybeSchedule
    BY <1>2, ContractRows DEF SubscriptionRow
  <1>4. \/ webhook' = Set(webhook, h, "create")
        \/ webhook' = [webhook EXCEPT ![h].schedule = c, ![h].at = AfterSchedule(h)]
    BY DEF FindSchedule
  <1>5. AfterSchedule(h) \in {"lead", "row"}
    BY DEF AfterSchedule
  <1>6. \E record \in HookRow : HookBecomes(h, record) /\ record.order = o /\ record.at # "configure"
    <2>. DEFINE at == AfterSchedule(h)
    <2>1. \/ HookBecomes(h, [webhook[h] EXCEPT !.at = "create"])
          \/ HookBecomes(h, [webhook[h] EXCEPT !.at = at, !.schedule = c])
      BY <1>1, <1>3, <1>4, <1>5, HookMoves
    <2>. HIDE DEF at, c
    <2>2. LET r == [webhook[h] EXCEPT !.at = "create"]
          IN  r \in HookRow /\ r.order = o /\ r.at = "create"
      BY <1>1 DEF HookRow
    <2>3. LET p == [webhook[h] EXCEPT !.at = at]
          IN  p \in HookRow /\ p.order = o /\ p.at = at
      BY <1>1, <1>5 DEF HookRow, at
    <2>4. LET p == [webhook[h] EXCEPT !.at = at]
              r == [webhook[h] EXCEPT !.at = at, !.schedule = c]
          IN  r = [p EXCEPT !.schedule = c]
      BY <1>1 DEF HookRow
    <2>5. \A p \in HookRow : LET r == [p EXCEPT !.schedule = c]
                              IN r \in HookRow /\ r.order = p.order /\ r.at = p.at
      BY <1>3 DEF HookRow
    <2>6. LET r == [webhook[h] EXCEPT !.at = at, !.schedule = c]
          IN  r \in HookRow /\ r.order = o /\ r.at = at
      BY <2>3, <2>4, <2>5
    <2>. QED BY <1>5, <2>1, <2>2, <2>6 DEF at
  <1>7. PICK record \in HookRow : HookBecomes(h, record) /\ record.order = o /\ record.at # "configure"
    BY <1>6
  <1>8. ContractInv'
    BY <1>1, <1>2, <1>7, HookFrame, ContractRows
  <1>. QED BY <1>1, <1>7, <1>8

LEMMA HookFields ==
    ASSUME NEW r \in HookRow, NEW at \in {"find", "create", "configure", "lead", "row", "sync"},
           NEW c \in MaybeSchedule, NEW first \in Phases \cup {Nothing}
    PROVE  /\ LET q == [r EXCEPT !.at = at, !.first = first]
              IN q.at = at /\ q.first = first /\ q.order = r.order
           /\ LET q == [r EXCEPT !.at = at, !.schedule = c, !.first = first]
              IN q.at = at /\ q.first = first /\ q.order = r.order
           /\ LET q == [r EXCEPT !.at = at] IN q.at = at /\ q.order = r.order
BY DEF HookRow

LEMMA CreateKeeps ==
    ASSUME ContractInv, NEW h \in Webhooks, CreateSchedule(h)
    PROVE  /\ ContractInv' /\ webhook[h] # Nothing /\ webhook[h].at = "create"
           /\ UNCHANGED <<now, configured, lead, row, account>>
           /\ webhook[h].order \in Orders /\ Subscribed(webhook[h].order)
           /\ \E c \in Schedules, first \in Phases : \E record :
                /\ HookBecomes(h, record) /\ record.order = webhook[h].order /\ record.at = "configure"
                /\ record.first = first
                /\ first.end = subscription[webhook[h].order].until
                /\ ~Begun(c) /\ Begun(c)' /\ \A d \in Schedules \ {c} : schedule'[d] = schedule[d]
                /\ schedule'[c].order = webhook[h].order /\ Last(schedule'[c].phases) = first
                /\ \A o \in Orders : (Subscribed(o)' <=> Subscribed(o))
                /\ \A o \in Orders \ {webhook[h].order} : subscription'[o] = subscription[o]
                /\ LET s == subscription[webhook[h].order]
                       r == subscription'[webhook[h].order]
                   IN  /\ r.state = s.state /\ r.cancelAt = s.cancelAt /\ r.until = s.until
                       /\ r.schedule = c
  <1>. DEFINE o == webhook[h].order
              s == subscription[o]
              first == Phase(s.until - Months(s.price), s.until, s.price)
  <1>1. /\ webhook[h] # Nothing /\ webhook[h].at = "create" /\ webhook[h] \in HookRow
        /\ UNCHANGED <<now, configured, lead, row, account>>
    BY ContractRows DEF CreateSchedule, WebhookAt
  <1>2. o \in Orders /\ Subscribed(o) /\ s \in SubscriptionRow
    <2>1. o \in Orders /\ Subscribed(o)
      BY <1>1 DEF ContractInv, HookOK, HookRow
    <2>. QED BY <2>1, ContractRows
  <1>3. first \in Phases /\ first.start < first.end /\ first.end = s.until
    <2>1. Months(s.price) \in Nat /\ Months(s.price) >= 1 /\ s.until \in Nat /\ s.price \in Prices
      BY <1>2, ContractConstants DEF SubscriptionRow
    <2>2. ASSUME NEW m \in Nat, m >= 1, NEW u \in Nat, NEW p \in Prices
          PROVE  LET q == Phase(u - m, u, p) IN q \in Phases /\ q.start < q.end /\ q.end = u
      BY <2>2 DEF Phase, Phases
    <2>. QED BY <2>1, <2>2
  <1>4. PICK c \in Schedules :
           /\ schedule[c] = NoSchedule
           /\ schedule' = [schedule EXCEPT ![c] =
                 [state |-> "active", order |-> o, phases |-> <<first>>, end |-> "release"]]
           /\ subscription' = [subscription EXCEPT ![o].schedule = c]
           /\ webhook' = [webhook EXCEPT ![h].schedule = c, ![h].first = first, ![h].at = "configure"]
    BY DEF CreateSchedule
  <1>. DEFINE new == [state |-> "active", order |-> o, phases |-> <<first>>, end |-> "release"]
              record == [webhook[h] EXCEPT !.at = "configure", !.schedule = c, !.first = first]
              t == [s EXCEPT !.schedule = c]
  <1>. HIDE DEF first
  <1>5. Phased(<<first>>) /\ Last(<<first>>) = first
    <2>1. /\ <<first>> \in Seq(Phases) /\ Len(<<first>>) = 1 /\ <<first>>[1] = first
      BY <1>3
    <2>2. Phased(<<first>>)
      BY <1>3, <2>1 DEF Phased
    <2>. QED BY <2>1, <2>2, PhasesBegin
  <1>6. new \in ScheduleRow /\ new # NoSchedule /\ new.phases = <<first>> /\ new.order = o
    BY <1>2, <1>5 DEF ScheduleRow, Phased, NoSchedule
  <1>7. /\ schedule' \in [Schedules -> ScheduleRow \cup {NoSchedule}] /\ schedule'[c] = new
        /\ \A d \in Schedules \ {c} : schedule'[d] = schedule[d]
        /\ ~Begun(c) /\ Begun(c)' /\ \A d \in Schedules : Begun(d) => Begun(d)'
    <2>. HIDE DEF new
    <2>1. /\ schedule' \in [Schedules -> ScheduleRow \cup {NoSchedule}] /\ schedule'[c] = new
          /\ \A d \in Schedules \ {c} : schedule'[d] = schedule[d]
      BY <1>4, <1>6, ContractRows DEF new
    <2>. QED BY <1>4, <1>6, <2>1 DEF Begun
  <1>8. t \in SubscriptionRow /\ t.state = s.state /\ t.cancelAt = s.cancelAt /\ t.until = s.until
           /\ t.schedule = c /\ t # NoSubscription
    BY <1>2 DEF SubscriptionRow, NoSubscription, MaybeSchedule
  <1>9. /\ subscription' \in [Orders -> SubscriptionRow \cup {NoSubscription}] /\ subscription'[o] = t
        /\ \A p \in Orders \ {o} : subscription'[p] = subscription[p]
    <2>1. subscription' = [subscription EXCEPT ![o] = t]
      BY <1>2, <1>4, ContractRows
    <2>. HIDE DEF o, t
    <2>. QED BY <1>2, <1>8, <2>1, ContractRows
  <1>10. \A p \in Orders : (Subscribed(p)' <=> Subscribed(p))
    <2>. HIDE DEF o, t
    <2>. QED BY <1>2, <1>8, <1>9 DEF Subscribed
  <1>11. HookBecomes(h, record) /\ record.order = o /\ record.at = "configure" /\ record.first = first
    <2>1. first \in Phases \cup {Nothing} /\ c \in MaybeSchedule
      BY <1>3 DEF MaybeSchedule
    <2>2. HookBecomes(h, record)
      BY <1>1, <1>4, <2>1, HookMoves
    <2>3. record.at = "configure" /\ record.first = first /\ record.order = o
      BY <1>1, <2>1, HookFields
    <2>. QED BY <2>2, <2>3
  <1>. HIDE DEF new, record, t
  <1>12. ContractTypes'
    BY <1>1, <1>7, <1>9, <1>11, ContractRows DEF ContractTypes, HookBecomes
  <1>13. ScheduleOK(c)'
    <2>1. c \notin configured
      BY <1>7, ContractRows
    <2>. QED BY <1>1, <1>2, <1>5, <1>6, <1>7, <1>10, <2>1 DEF ScheduleOK
  <1>14. HookOK(h)'
    BY <1>2, <1>3, <1>10, <1>11 DEF HookOK, HookBecomes
  <1>15. ContractInv'
    BY <1>1, <1>7, <1>10, <1>11, <1>12, <1>13, <1>14, ContractFrame DEF HookBecomes
  <1>. QED BY <1>1, <1>2, <1>3, <1>5, <1>6, <1>7, <1>8, <1>9, <1>10, <1>11, <1>15

LEMMA ConfigureKeeps ==
    ASSUME ContractInv, NEW h \in Webhooks, ConfigureSchedule(h)
    PROVE  /\ ContractInv' /\ webhook[h] # Nothing /\ webhook[h].at = "configure"
           /\ UNCHANGED <<now, lead, row, account>>
           /\ webhook[h].order \in Orders /\ Subscribed(webhook[h].order) /\ webhook[h].first \in Phases
           /\ PutSchedule(webhook[h].schedule, AnnualThenMonthly(webhook[h].first), "release")
           /\ webhook[h].schedule \in MaybeSchedule /\ Phased(AnnualThenMonthly(webhook[h].first))
           /\ Last(AnnualThenMonthly(webhook[h].first)).end >= webhook[h].first.end
           /\ \E record : /\ HookBecomes(h, record) /\ record.order = webhook[h].order
                          /\ record.at \in {"lead", "row"}
  <1>. DEFINE o == webhook[h].order
              c == webhook[h].schedule
              first == webhook[h].first
              phases == AnnualThenMonthly(first)
              at == AfterSchedule(h)
              record == [webhook[h] EXCEPT !.at = at, !.first = Nothing]
  <1>1. /\ webhook[h] # Nothing /\ webhook[h].at = "configure" /\ webhook[h] \in HookRow
        /\ PutSchedule(c, phases, "release") /\ configured' = configured \cup {c}
        /\ webhook' = [webhook EXCEPT ![h].first = Nothing, ![h].at = at]
        /\ UNCHANGED <<now, lead, row, account>>
    BY ContractRows DEF ConfigureSchedule, WebhookAt
  <1>2. o \in Orders /\ Subscribed(o) /\ first \in Phases /\ first.start < first.end /\ c \in MaybeSchedule
    BY <1>1 DEF ContractInv, HookOK, HookRow
  <1>3. Phased(phases) /\ Len(phases) = 2 /\ Last(phases).end >= first.end
    BY <1>2, ConfiguredPhases
  <1>4. at \in {"lead", "row"}
    BY DEF AfterSchedule
  <1>5. HookBecomes(h, record)
    BY <1>1, <1>2, <1>4, HookMoves
  <1>6. record.at = at /\ record.order = o
    BY <1>1, <1>2, <1>4, HookFields
  <1>. HIDE DEF record, at, phases, first
  <1>7. /\ c \in Schedules /\ Begun(c) /\ Subscribed(schedule[c].order) /\ schedule[c].order \in Orders
        /\ schedule' \in [Schedules -> ScheduleRow \cup {NoSchedule}]
        /\ schedule'[c].phases = phases /\ schedule'[c].end = "release"
        /\ schedule'[c].order = schedule[c].order
        /\ \A d \in Schedules \ {c} : schedule'[d] = schedule[d]
        /\ \A d \in Schedules : Begun(d)' <=> Begun(d)
        /\ subscription' \in [Orders -> SubscriptionRow \cup {NoSubscription}]
        /\ \A p \in Orders : (Subscribed(p)' <=> Subscribed(p))
    BY <1>1, <1>2, <1>3, PutEffect
  <1>8. ContractTypes'
    BY <1>1, <1>5, <1>7, ContractRows DEF ContractTypes, HookBecomes
  <1>9. ASSUME NEW d \in Schedules PROVE \/ schedule'[d] = schedule[d] /\ (d \in configured' => d \in configured)
                                         \/ ScheduleOK(d)'
    <2>1. CASE d = c
      BY <1>3, <1>7, <2>1 DEF ScheduleOK, Subscribed
    <2>. QED BY <1>1, <1>7, <2>1
  <1>10. HookOK(h)'
    BY <1>2, <1>4, <1>5, <1>6, <1>7 DEF HookOK, HookBecomes
  <1>11. ContractInv'
    BY <1>1, <1>5, <1>7, <1>8, <1>9, <1>10, ContractFrame DEF HookBecomes
  <1>. QED BY <1>1, <1>2, <1>3, <1>4, <1>5, <1>6, <1>11 DEF phases, first

\* A step that writes the row or the lead, and ends the request or moves it on.
LEMMA RecordKeeps ==
    ASSUME ContractInv, NEW h \in Webhooks,
           RecordLead(h) \/ ActivateRow(h) \/ SyncDetails(h) \/ WebhookFails(h)
    PROVE  /\ ContractInv'
           /\ UNCHANGED <<now, stripeVars, account>>
           /\ \E record : HookBecomes(h, record) /\ (record # Nothing => record.at = "sync")
           /\ row' # Nothing => \/ row # Nothing /\ row'.order = row.order /\ row'.term = row.term
                                \/ row'.order \in Orders /\ row'.term = TermEnd(row'.order)
  <1>. DEFINE o == webhook[h].order
  <1>1. /\ webhook[h] # Nothing /\ webhook[h] \in HookRow /\ UNCHANGED <<now, stripeVars, account>>
        /\ o \in Orders /\ Subscribed(o)
    <2>1. webhook[h] # Nothing /\ UNCHANGED <<now, stripeVars, account>>
      BY DEF RecordLead, ActivateRow, SyncDetails, WebhookFails, WebhookAt
    <2>. QED BY <2>1, ContractRows DEF ContractInv, HookOK, HookRow
  <1>2. webhook[h].schedule \in MaybeSchedule /\ webhook[h].until \in MaybeDate
    BY <1>1 DEF HookRow
  <1>3. ASSUME EndWebhook(h) PROVE HookBecomes(h, Nothing)
    BY <1>3, HookGets DEF EndWebhook
  <1>4. CASE RecordLead(h)
    <2>. DEFINE new == [new |-> FALSE, schedule |-> IF webhook[h].schedule # Nothing
                                                    THEN webhook[h].schedule ELSE lead[o].schedule]
    <2>1. lead[o] \in LeadRow /\ row' = row /\ EndWebhook(h)
      BY <1>1, <1>4, ContractRows DEF RecordLead
    <2>2. new \in LeadRow
      BY <1>2, <2>1 DEF LeadRow
    <2>3. lead' = [lead EXCEPT ![o] = IF lead[o].new THEN new ELSE lead[o]]
      BY <1>1, <1>4, ContractRows DEF RecordLead
    <2>. HIDE DEF new, o
    <2>4. lead' \in [Orders -> LeadRow]
      BY <1>1, <2>1, <2>2, <2>3, ContractRows
    <2>5. HookBecomes(h, Nothing)
      BY <1>3, <2>1
    <2>6. ContractInv'
      BY <1>1, <2>1, <2>4, <2>5, HookFrame, ContractRows
    <2>. QED BY <1>1, <2>1, <2>5, <2>6
  <1>5. CASE ActivateRow(h)
    <2>. DEFINE kept == IF row = Nothing THEN Nothing ELSE row.schedule
                new == [order |-> o, term |-> TermEnd(o),
                        until |-> IF row = Nothing THEN Nothing ELSE row.until,
                        schedule |-> IF webhook[h].schedule # Nothing
                                     THEN webhook[h].schedule ELSE kept]
                record == [webhook[h] EXCEPT !.at = "sync"]
    <2>1. row' = new /\ lead' = [lead EXCEPT ![o].new = FALSE] /\ webhook' = Set(webhook, h, "sync")
      BY <1>5 DEF ActivateRow
    <2>2. new \in CustomerRow /\ new.order = o /\ new.term = TermEnd(o)
      <3>1. row # Nothing => row \in CustomerRow
        BY ContractRows
      <3>2. TermEnd(o) \in Nat
        BY <1>1, ContractConstants
      <3>3. kept \in MaybeSchedule /\ (IF row = Nothing THEN Nothing ELSE row.until) \in MaybeDate
        BY <3>1 DEF CustomerRow, MaybeSchedule, MaybeDate
      <3>. QED BY <1>1, <1>2, <3>2, <3>3 DEF CustomerRow
    <2>3. HookBecomes(h, record) /\ record.at = "sync" /\ record.order = o
      <3>1. Nothing \in MaybeSchedule /\ Nothing \in Phases \cup {Nothing}
        BY DEF MaybeSchedule
      <3>2. HookBecomes(h, record)
        BY <1>1, <2>1, <3>1, HookMoves
      <3>. QED BY <1>1, <3>1, <3>2, HookFields
    <2>4. lead' \in [Orders -> LeadRow]
      BY <1>1, <2>1, ContractRows DEF LeadRow
    <2>. HIDE DEF new, record
    <2>5. ContractInv'
      BY <1>1, <2>1, <2>2, <2>3, <2>4, HookFrame, ContractRows
    <2>. QED BY <1>1, <2>1, <2>2, <2>3, <2>5
  <1>6. CASE SyncDetails(h)
    <2>. DEFINE new == [row EXCEPT !.until = webhook[h].until]
    <2>1. lead' = lead /\ EndWebhook(h) /\ (row' = row \/ (row # Nothing /\ row' = new))
      BY <1>6 DEF SyncDetails
    <2>2. row # Nothing => new \in CustomerRow /\ new.order = row.order /\ new.term = row.term
      <3>1. row # Nothing => row \in CustomerRow
        BY ContractRows
      <3>. QED BY <1>2, <3>1 DEF CustomerRow
    <2>. HIDE DEF new
    <2>3. HookBecomes(h, Nothing)
      BY <1>3, <2>1
    <2>4. row # Nothing => row.order \in Orders /\ Subscribed(row.order)
      BY ContractRows DEF ContractInv, CustomerRow
    <2>5. ContractInv'
      BY <1>1, <2>1, <2>2, <2>3, <2>4, HookFrame, ContractRows
    <2>. QED BY <1>1, <2>1, <2>2, <2>3, <2>5
  <1>7. CASE WebhookFails(h)
    <2>1. lead' = lead /\ EndWebhook(h) /\ row' = row
      BY <1>7 DEF WebhookFails
    <2>2. HookBecomes(h, Nothing)
      BY <1>3, <2>1
    <2>3. ContractInv'
      BY <1>1, <2>1, <2>2, HookFrame, ContractRows
    <2>. QED BY <1>1, <2>1, <2>2, <2>3
  <1>. QED BY <1>4, <1>5, <1>6, <1>7

LEMMA LeadMovesKeeps ==
    ASSUME ContractInv, NEW o \in Orders, LeadMoves(o)
    PROVE  ContractInv' /\ UNCHANGED <<now, stripeVars, row, webhook, account>>
  <1>1. lead' = [lead EXCEPT ![o].new = FALSE] /\ UNCHANGED <<now, stripeVars, row, webhook, account>>
    BY DEF LeadMoves
  <1>2. lead' \in [Orders -> LeadRow]
    BY <1>1, ContractRows DEF LeadRow
  <1>3. ContractTypes'
    BY <1>1, <1>2, ContractRows DEF ContractTypes, Begun
  <1>. QED BY <1>1, <1>3, ContractFrame DEF Subscribed

AccountBecomes(a, record) ==
    /\ account' \in [Accounts -> AccountRow \cup {Nothing}] /\ account'[a] = record
    /\ \A b \in Accounts \ {a} : account'[b] = account[b]

LEMMA AccountGets ==
    ASSUME ContractInv, NEW a \in Accounts, NEW record \in AccountRow \cup {Nothing},
           account' = [account EXCEPT ![a] = record]
    PROVE  AccountBecomes(a, record)
BY ContractRows DEF AccountBecomes

LEMMA AccountOrder ==
    ASSUME ContractInv, NEW a \in Accounts, account[a] # Nothing
    PROVE  /\ account[a] \in AccountRow /\ account[a].order \in Orders /\ Subscribed(account[a].order)
           /\ account[a].cancel \in BOOLEAN /\ account[a].date \in Nat /\ account[a].schedule \in MaybeSchedule
           /\ account[a].at = "write" => /\ Phased(account[a].phases)
                                         /\ account[a].cancel \/ Len(account[a].phases) = 2
  <1>1. account[a] \in AccountRow /\ AccountOK(a)
    BY ContractRows DEF ContractInv
  <1>. QED BY <1>1 DEF AccountOK, AccountRow

LEMMA OpenKeeps ==
    ASSUME ContractInv, NEW a \in Accounts, NEW cancel \in BOOLEAN, OpenAccount(a, cancel)
    PROVE  /\ ContractInv' /\ row # Nothing /\ row \in CustomerRow
           /\ UNCHANGED <<now, stripeVars, lead, row, webhook>>
           /\ \E record : /\ AccountBecomes(a, record) /\ record.order = row.order /\ record.at = "read"
                          /\ record.cancel = cancel
                          /\ cancel => record.date = PermittedDate
  <1>. DEFINE record == [at |-> "read", cancel |-> cancel, date |-> IF cancel THEN PermittedDate ELSE Never,
                         order |-> row.order, schedule |-> row.schedule, phases |-> <<>>]
  <1>1. row # Nothing /\ row \in CustomerRow /\ UNCHANGED <<now, stripeVars, lead, row, webhook>>
           /\ account' = [account EXCEPT ![a] = record] /\ Subscribed(row.order) /\ row.order \in Orders
    BY ContractRows DEF OpenAccount, ContractInv, CustomerRow
  <1>2. PermittedDate \in Nat
    BY <1>1, ContractRows DEF PermittedDate, CustomerRow, MaybeDate
  <1>3. record \in AccountRow
    BY <1>1, <1>2, ContractConstants DEF AccountRow, CustomerRow
  <1>4. record.at = "read" /\ record.order = row.order /\ record.cancel = cancel
           /\ (cancel => record.date = PermittedDate)
    OBVIOUS
  <1>. HIDE DEF record
  <1>5. AccountBecomes(a, record)
    BY <1>1, <1>3, AccountGets
  <1>6. ContractTypes'
    BY <1>1, <1>5, ContractRows DEF ContractTypes, AccountBecomes, Begun
  <1>7. AccountOK(a)'
    BY <1>1, <1>4, <1>5 DEF AccountOK, AccountBecomes, Subscribed
  <1>8. ContractInv'
    BY <1>1, <1>5, <1>6, <1>7, ContractFrame DEF AccountBecomes, Subscribed
  <1>. QED BY <1>1, <1>4, <1>5, <1>8

LEMMA ReadKeeps ==
    ASSUME ContractInv, NEW a \in Accounts, ReadSchedule(a)
    PROVE  /\ ContractInv' /\ account[a] # Nothing /\ account[a].order \in Orders
           /\ UNCHANGED <<now, stripeVars, lead, row, webhook>>
           /\ \E record :
                /\ AccountBecomes(a, record) /\ record.order = account[a].order
                /\ record.cancel = account[a].cancel /\ record.date = account[a].date
                /\ record.at = "write" =>
                      /\ Phased(record.phases)
                      /\ \E c \in Schedules :
                           /\ Begun(c)
                           /\ \/ account[a].cancel
                                 /\ Last(record.phases).end \in {account[a].date, Last(schedule[c].phases).end}
                              \/ Last(record.phases).end >= Last(schedule[c].phases).end
  <1>. DEFINE c == account[a].schedule
              phases == IF Active(c) THEN NewPhases(a, schedule[c].phases) ELSE <<>>
              at == IF phases = <<>> THEN "direct" ELSE "write"
              record == [account[a] EXCEPT !.phases = phases, !.at = at]
  <1>1. /\ account[a] # Nothing /\ UNCHANGED <<now, stripeVars, lead, row, webhook>>
        /\ account' = [account EXCEPT ![a] = record]
    BY ContractRows DEF ReadSchedule, AccountAt
  <1>2. /\ account[a] \in AccountRow /\ account[a].order \in Orders /\ Subscribed(account[a].order)
        /\ account[a].date \in Nat /\ c \in MaybeSchedule
    BY <1>1, AccountOrder
  <1>3. Active(c) => c \in Schedules /\ Begun(c) /\ Phased(schedule[c].phases)
    BY <1>2, ContractRows DEF ContractInv, ScheduleOK
  <1>4. phases # <<>> =>
           /\ Phased(phases) /\ c \in Schedules /\ Begun(c) /\ (account[a].cancel \/ Len(phases) = 2)
           /\ \/ account[a].cancel /\ Last(phases).end \in {account[a].date, Last(schedule[c].phases).end}
              \/ Last(phases).end >= Last(schedule[c].phases).end
    <2>. SUFFICES ASSUME phases # <<>>
                  PROVE  /\ Phased(phases) /\ c \in Schedules /\ Begun(c) /\ (account[a].cancel \/ Len(phases) = 2)
                         /\ \/ account[a].cancel /\ Last(phases).end \in {account[a].date, Last(schedule[c].phases).end}
                            \/ Last(phases).end >= Last(schedule[c].phases).end
      OBVIOUS
    <2>1. Active(c) /\ phases = NewPhases(a, schedule[c].phases)
      OBVIOUS
    <2>2. CASE account[a].cancel
      <3>1. phases = Truncated(schedule[c].phases, account[a].date)
        BY <2>1, <2>2 DEF NewPhases
      <3>. HIDE DEF phases
      <3>. QED BY <1>2, <1>3, <2>1, <2>2, <3>1, TruncatedPhases
    <2>3. CASE ~account[a].cancel
      <3>1. phases = Resumed(schedule[c].phases)
        BY <2>1, <2>3 DEF NewPhases
      <3>. HIDE DEF phases
      <3>. QED BY <1>3, <2>1, <2>3, <3>1, ResumedPhases
    <2>. QED BY <2>2, <2>3
  <1>5. phases \in Seq(Phases)
    <2>1. <<>> \in Seq(Phases)
      OBVIOUS
    <2>. HIDE DEF phases
    <2>. QED BY <1>4, <2>1, PhasesBegin
  <1>6. at \in {"direct", "write"} /\ (at = "write" => phases # <<>>)
    OBVIOUS
  <1>. HIDE DEF phases, at
  <1>7. /\ record \in AccountRow /\ record.at = at /\ record.phases = phases /\ record.order = account[a].order
        /\ record.cancel = account[a].cancel /\ record.date = account[a].date
    <2>1. LET half == [account[a] EXCEPT !.at = at]
          IN  half \in AccountRow /\ record = [half EXCEPT !.phases = phases]
      <3>1. [account[a] EXCEPT !.at = at] \in AccountRow
        BY <1>2, <1>6 DEF AccountRow
      <3>2. record = [[account[a] EXCEPT !.at = at] EXCEPT !.phases = phases]
        BY <1>2 DEF AccountRow
      <3>. QED BY <3>1, <3>2
    <2>2. \A half \in AccountRow : [half EXCEPT !.phases = phases] \in AccountRow
      BY <1>5 DEF AccountRow
    <2>3. record \in AccountRow
      BY <2>1, <2>2
    <2>4. /\ record.at = at /\ record.phases = phases /\ record.order = account[a].order
          /\ record.cancel = account[a].cancel /\ record.date = account[a].date
      BY <1>2 DEF AccountRow
    <2>. QED BY <2>3, <2>4
  <1>. HIDE DEF record
  <1>8. AccountBecomes(a, record)
    BY <1>1, <1>7, AccountGets
  <1>9. ContractTypes'
    BY <1>1, <1>8, ContractRows DEF ContractTypes, AccountBecomes, Begun
  <1>10. AccountOK(a)'
    BY <1>1, <1>2, <1>4, <1>6, <1>7, <1>8 DEF AccountOK, AccountBecomes, Subscribed
  <1>11. ContractInv'
    BY <1>1, <1>8, <1>9, <1>10, ContractFrame DEF AccountBecomes, Subscribed
  <1>. QED BY <1>1, <1>2, <1>4, <1>6, <1>7, <1>8, <1>11

LEMMA WriteKeeps ==
    ASSUME ContractInv, NEW a \in Accounts, WriteSchedule(a)
    PROVE  /\ ContractInv' /\ account[a] # Nothing /\ account[a].at = "write"
           /\ account[a].order \in Orders /\ Subscribed(account[a].order)
           /\ UNCHANGED <<now, configured, lead, row, webhook>> /\ AccountBecomes(a, Nothing)
           /\ account[a].schedule \in MaybeSchedule /\ Phased(account[a].phases)
           /\ \E end \in {"release", "cancel"} : PutSchedule(account[a].schedule, account[a].phases, end)
  <1>. DEFINE c == account[a].schedule
              phases == account[a].phases
              end == IF account[a].cancel THEN "cancel" ELSE "release"
  <1>1. /\ account[a] # Nothing /\ account[a].at = "write" /\ UNCHANGED <<now, configured, lead, row, webhook>>
        /\ PutSchedule(c, phases, end) /\ EndAccount(a)
    BY DEF WriteSchedule, AccountAt
  <1>2. /\ account[a] \in AccountRow /\ account[a].order \in Orders /\ Subscribed(account[a].order)
        /\ c \in MaybeSchedule /\ Phased(phases) /\ (account[a].cancel \/ Len(phases) = 2)
    BY <1>1, AccountOrder
  <1>3. end \in {"release", "cancel"} /\ (end = "release" => Len(phases) = 2)
    BY <1>2
  <1>4. AccountBecomes(a, Nothing)
    BY <1>1, AccountGets DEF EndAccount
  <1>. HIDE DEF end, phases
  <1>5. /\ c \in Schedules /\ Begun(c) /\ Subscribed(schedule[c].order) /\ schedule[c].order \in Orders
        /\ schedule' \in [Schedules -> ScheduleRow \cup {NoSchedule}]
        /\ schedule'[c].phases = phases /\ schedule'[c].end = end
        /\ schedule'[c].order = schedule[c].order
        /\ \A d \in Schedules \ {c} : schedule'[d] = schedule[d]
        /\ \A d \in Schedules : Begun(d)' <=> Begun(d)
        /\ subscription' \in [Orders -> SubscriptionRow \cup {NoSubscription}]
        /\ \A p \in Orders : (Subscribed(p)' <=> Subscribed(p))
    BY <1>1, <1>2, <1>3, PutEffect
  <1>6. ContractTypes'
    BY <1>1, <1>4, <1>5, ContractRows DEF ContractTypes, AccountBecomes
  <1>7. ASSUME NEW d \in Schedules PROVE schedule'[d] = schedule[d] \/ ScheduleOK(d)'
    <2>1. CASE d = c
      BY <1>2, <1>3, <1>5, <2>1 DEF ScheduleOK, Subscribed
    <2>. QED BY <1>5, <2>1
  <1>8. AccountOK(a)'
    BY <1>4 DEF AccountOK, AccountBecomes
  <1>9. ContractInv'
    BY <1>1, <1>4, <1>5, <1>6, <1>7, <1>8, ContractFrame DEF AccountBecomes
  <1>. QED BY <1>1, <1>2, <1>3, <1>4, <1>9 DEF phases

LEMMA CancelKeeps ==
    ASSUME ContractInv, NEW a \in Accounts, CancelDirectly(a)
    PROVE  /\ ContractInv' /\ account[a] # Nothing /\ account[a].order \in Orders
           /\ Subscribed(account[a].order)
           /\ UNCHANGED <<now, schedule, configured, lead, row, webhook>> /\ AccountBecomes(a, Nothing)
           /\ \A p \in Orders : (Subscribed(p)' <=> Subscribed(p))
           /\ \A p \in Orders \ {account[a].order} : subscription'[p] = subscription[p]
           /\ LET s == subscription[account[a].order]
                  r == subscription'[account[a].order]
              IN  /\ r.state = s.state /\ r.until = s.until /\ r.schedule = s.schedule
                  /\ r.cancelAt = (IF ~account[a].cancel THEN Never
                                   ELSE IF account[a].date > now THEN account[a].date ELSE s.until)
  <1>. DEFINE o == account[a].order
              s == subscription[o]
              date == IF ~account[a].cancel THEN Never
                      ELSE IF account[a].date > now THEN account[a].date ELSE s.until
              r == [s EXCEPT !.cancelAt = date]
  <1>1. /\ account[a] # Nothing /\ UNCHANGED <<now, schedule, configured, lead, row, webhook>>
        /\ subscription' = [subscription EXCEPT ![o].cancelAt = date] /\ EndAccount(a)
    BY DEF CancelDirectly, AccountAt
  <1>2. o \in Orders /\ Subscribed(o) /\ account[a].date \in Nat /\ s \in SubscriptionRow
    BY <1>1, AccountOrder, ContractRows
  <1>3. date \in Nat
    BY <1>2, ContractConstants DEF SubscriptionRow
  <1>4. AccountBecomes(a, Nothing)
    BY <1>1, AccountGets DEF EndAccount
  <1>. HIDE DEF date
  <1>5. r \in SubscriptionRow /\ r.state = s.state /\ r.until = s.until /\ r.schedule = s.schedule
           /\ r.cancelAt = date /\ r # NoSubscription
    BY <1>2, <1>3 DEF SubscriptionRow, NoSubscription
  <1>6. subscription' = [subscription EXCEPT ![o] = r]
    BY <1>1, <1>2, ContractRows
  <1>. HIDE DEF r, o
  <1>7. /\ subscription' \in [Orders -> SubscriptionRow \cup {NoSubscription}] /\ subscription'[o] = r
        /\ \A p \in Orders \ {o} : subscription'[p] = subscription[p]
    BY <1>2, <1>5, <1>6, ContractRows
  <1>8. \A p \in Orders : (Subscribed(p)' <=> Subscribed(p))
    BY <1>2, <1>5, <1>7 DEF Subscribed
  <1>9. ContractTypes'
    BY <1>1, <1>4, <1>7, ContractRows DEF ContractTypes, AccountBecomes, Begun
  <1>10. AccountOK(a)'
    BY <1>4 DEF AccountOK, AccountBecomes
  <1>11. ContractInv'
    BY <1>1, <1>4, <1>8, <1>9, <1>10, ContractFrame DEF AccountBecomes
  <1>. QED BY <1>1, <1>2, <1>4, <1>5, <1>7, <1>8, <1>11 DEF o, date

LEMMA AccountFailsKeeps ==
    ASSUME ContractInv, NEW a \in Accounts, AccountFails(a)
    PROVE  /\ ContractInv' /\ UNCHANGED <<now, stripeVars, lead, row, webhook>> /\ AccountBecomes(a, Nothing)
  <1>1. UNCHANGED <<now, stripeVars, lead, row, webhook>> /\ EndAccount(a)
    BY DEF AccountFails
  <1>2. AccountBecomes(a, Nothing)
    BY <1>1, AccountGets DEF EndAccount
  <1>3. ContractTypes'
    BY <1>1, <1>2, ContractRows DEF ContractTypes, AccountBecomes, Begun
  <1>4. AccountOK(a)'
    BY <1>2 DEF AccountOK, AccountBecomes
  <1>5. ContractInv'
    BY <1>1, <1>2, <1>3, <1>4, ContractFrame DEF AccountBecomes, Subscribed
  <1>. QED BY <1>1, <1>2, <1>5

LEMMA ContractInductive == ContractInv /\ [ContractNext]_contractVars => ContractInv'
  <1>. SUFFICES ASSUME ContractInv, [ContractNext]_contractVars PROVE ContractInv'
    OBVIOUS
  <1>1. CASE UNCHANGED contractVars
    <2>1. ContractTypes'
      BY <1>1, ContractRows DEF ContractTypes, Begun
    <2>. QED BY <1>1, <2>1, ContractFrame DEF Subscribed
  <1>2. ASSUME NEW h \in Webhooks, WebhookStep(h) PROVE ContractInv'
    BY <1>2, EventKeeps, FindKeeps, CreateKeeps, ConfigureKeeps, RecordKeeps DEF WebhookStep
  <1>3. ASSUME NEW a \in Accounts, AccountStep(a) PROVE ContractInv'
    BY <1>3, OpenKeeps, ReadKeeps, WriteKeeps, CancelKeeps, AccountFailsKeeps DEF AccountStep
  <1>. QED BY <1>1, <1>2, <1>3, SubscribeKeeps, LeadMovesKeeps, PassTimeKeeps DEF ContractNext

LEMMA ContractInvariant == ContractSpec => []ContractInv
BY ContractInitially, ContractInductive, PTL DEF ContractSpec

\* Whichever of configuring, cancelling and resuming an annual schedule wins, and whatever snapshot of
\* its phases a request writes back: one that ends by releasing releases to the monthly price.
THEOREM SchedulesReleaseToMonthly == ContractSpec => []ReleasesToMonthly
  <1>1. ASSUME ContractInv PROVE ReleasesToMonthly
    <2>1. ASSUME NEW c \in configured, schedule[c].end = "release"
          PROVE  Last(schedule[c].phases).price = "monthly"
      <3>1. c \in Schedules /\ Begun(c)
        BY <1>1, ContractRows
      <3>2. Phased(schedule[c].phases) /\ Len(schedule[c].phases) = 2
        BY <1>1, <2>1, <3>1 DEF ContractInv, ScheduleOK
      <3>. QED BY <3>2, PhasesBegin DEF Phased
    <2>. QED BY <2>1 DEF ReleasesToMonthly
  <1>. QED BY <1>1, ContractInvariant, PTL

-----------------------------------------------------------------------------
(* The term of a buyer's one order                                           *)

LEMMA BeyondStays ==
    ASSUME ContractInv, now' \in {now, now + 1}, NEW o \in Orders, NEW d \in Nat, NEW e \in Nat, e >= d,
           Beyond(o, d)
    PROVE  Beyond(o, e)'
BY ContractRows, ContractConstants DEF Beyond, Past

LEMMA PastStays ==
    ASSUME ContractInv, now' \in {now, now + 1}, NEW o \in Orders, Past(o)
    PROVE  Past(o)'
BY ContractRows, ContractConstants DEF Past

\* The dates the term depends on.
LEMMA TermDates ==
    ASSUME ContractInv
    PROVE  /\ \A o \in Orders : Subscribed(o) => /\ subscription[o].cancelAt \in Nat /\ subscription[o].until \in Nat
                                                 /\ subscription[o].schedule \in MaybeSchedule
           /\ \A c \in Schedules : Begun(c) => /\ Last(schedule[c].phases).end \in Nat
                                               /\ schedule[c].order \in Orders /\ Subscribed(schedule[c].order)
           /\ \A h \in Webhooks : webhook[h] # Nothing =>
                 /\ webhook[h].order \in Orders /\ Subscribed(webhook[h].order)
                 /\ webhook[h].at = "configure" => webhook[h].first.end \in Nat
           /\ \A a \in Accounts : account[a] # Nothing =>
                 /\ account[a].order \in Orders /\ Subscribed(account[a].order) /\ account[a].date \in Nat
                 /\ account[a].at = "write" => Last(account[a].phases).end \in Nat
  <1>1. \A o \in Orders : Subscribed(o) => /\ subscription[o].cancelAt \in Nat /\ subscription[o].until \in Nat
                                           /\ subscription[o].schedule \in MaybeSchedule
    BY ContractRows DEF SubscriptionRow
  <1>2. ASSUME NEW c \in Schedules, Begun(c)
        PROVE  /\ Last(schedule[c].phases).end \in Nat
               /\ schedule[c].order \in Orders /\ Subscribed(schedule[c].order)
    <2>1. schedule[c] \in ScheduleRow /\ Phased(schedule[c].phases) /\ Subscribed(schedule[c].order)
      BY <1>2, ContractRows DEF ContractInv, ScheduleOK
    <2>2. Last(schedule[c].phases) \in Phases
      BY <2>1, PhasesBegin
    <2>. QED BY <2>1, <2>2 DEF ScheduleRow, Phases
  <1>3. ASSUME NEW h \in Webhooks, webhook[h] # Nothing
        PROVE  /\ webhook[h].order \in Orders /\ Subscribed(webhook[h].order)
               /\ webhook[h].at = "configure" => webhook[h].first.end \in Nat
    <2>1. webhook[h] \in HookRow /\ HookOK(h)
      BY <1>3, ContractRows DEF ContractInv
    <2>. QED BY <1>3, <2>1 DEF HookOK, HookRow, Phases
  <1>4. ASSUME NEW a \in Accounts, account[a] # Nothing
        PROVE  /\ account[a].order \in Orders /\ Subscribed(account[a].order) /\ account[a].date \in Nat
               /\ account[a].at = "write" => Last(account[a].phases).end \in Nat
    <2>1. account[a].at = "write" => Last(account[a].phases) \in Phases
      BY <1>4, AccountOrder, PhasesBegin
    <2>. QED BY <1>4, <2>1, AccountOrder DEF Phases
  <1>. QED BY <1>1, <1>2, <1>3, <1>4

LEMMA OneOrderOnly ==
    ASSUME ContractInv, TermInv
    PROVE  /\ \A o \in Orders, c \in Schedules : Subscribed(o) /\ Begun(c) => schedule[c].order = o
           /\ \A o, p \in Orders : Subscribed(o) /\ Subscribed(p) => o = p
BY TermDates DEF TermInv, OneOrder

LEMMA TermFrame ==
    ASSUME ContractInv, TermInv, now' \in {now, now + 1}, OneOrder',
           \A o \in Orders : Subscribed(o) => Subscribed(o)',
           \A c \in Schedules : Begun(c) => Begun(c)',
           \A o \in Orders : subscription'[o] = subscription[o] \/ SubscriptionTerm(o)',
           \A c \in Schedules : schedule'[c] = schedule[c] \/ ScheduleTerm(c)',
           \A h \in Webhooks : webhook'[h] = webhook[h] \/ HookTerm(h)',
           \A a \in Accounts : account'[a] = account[a] \/ AccountTerm(a)',
           row' # Nothing => row'.term = TermEnd(row'.order)
    PROVE  TermInv'
  <1>1. ASSUME NEW o \in Orders, subscription'[o] = subscription[o] PROVE SubscriptionTerm(o)'
    <2>. SUFFICES ASSUME Subscribed(o) PROVE SubscriptionTerm(o)'
      BY <1>1 DEF SubscriptionTerm, Subscribed
    <2>1. SubscriptionTerm(o)
      BY DEF TermInv
    <2>2. /\ subscription[o].cancelAt \in Nat /\ subscription[o].until \in Nat
          /\ subscription[o].schedule # Nothing => subscription[o].schedule \in Schedules
      BY TermDates DEF MaybeSchedule
    <2>3. \A d \in Nat : Beyond(o, d) => Beyond(o, d)'
      BY BeyondStays
    <2>. QED BY <1>1, <2>1, <2>2, <2>3, PastStays DEF SubscriptionTerm, Begun, Past, Beyond
  <1>2. ASSUME NEW c \in Schedules, schedule'[c] = schedule[c] PROVE ScheduleTerm(c)'
    <2>. SUFFICES ASSUME Begun(c) PROVE ScheduleTerm(c)'
      BY <1>2 DEF ScheduleTerm, Begun
    <2>1. Beyond(schedule[c].order, Last(schedule[c].phases).end)
      BY DEF TermInv, ScheduleTerm
    <2>2. schedule[c].order \in Orders /\ Last(schedule[c].phases).end \in Nat
      BY TermDates
    <2>3. \A o \in Orders, d \in Nat : Beyond(o, d) => Beyond(o, d)'
      BY BeyondStays
    <2>. QED BY <1>2, <2>1, <2>2, <2>3 DEF ScheduleTerm, Beyond, Past
  <1>3. ASSUME NEW h \in Webhooks, webhook'[h] = webhook[h] PROVE HookTerm(h)'
    <2>. SUFFICES ASSUME webhook[h] # Nothing PROVE HookTerm(h)'
      BY <1>3 DEF HookTerm
    <2>1. HookTerm(h) /\ webhook[h].order \in Orders
             /\ (webhook[h].at = "configure" => webhook[h].first.end \in Nat)
      BY TermDates DEF TermInv
    <2>3. \A o \in Orders, d \in Nat : Beyond(o, d) => Beyond(o, d)'
      BY BeyondStays
    <2>. QED BY <1>3, <2>1, <2>3 DEF HookTerm, Beyond, Past
  <1>4. ASSUME NEW a \in Accounts, account'[a] = account[a] PROVE AccountTerm(a)'
    <2>. SUFFICES ASSUME account[a] # Nothing PROVE AccountTerm(a)'
      BY <1>4 DEF AccountTerm
    <2>1. AccountTerm(a) /\ account[a].order \in Orders /\ account[a].date \in Nat
             /\ (account[a].at = "write" => Last(account[a].phases).end \in Nat)
      BY TermDates DEF TermInv
    <2>3. \A o \in Orders, d \in Nat : Beyond(o, d) => Beyond(o, d)'
      BY BeyondStays
    <2>. QED BY <1>4, <2>1, <2>3 DEF AccountTerm, Beyond, Past
  <1>. QED BY <1>1, <1>2, <1>3, <1>4 DEF TermInv

LEMMA TermInitially == ContractInit => TermInv
BY DEF ContractInit, TermInv, OneOrder, SubscriptionTerm, ScheduleTerm, HookTerm, AccountTerm,
       Subscribed, Begun

LEMMA SubscribeTerm ==
    ASSUME ContractInv, TermInv, MaxSubscriptions = 1, NEW o \in Orders, Subscribe(o)
    PROVE  TermInv'
  <1>1. \A p \in Orders : ~Subscribed(p)
    <2>. DEFINE buyers == {p \in Orders : Subscribed(p)}
    <2>1. IsFiniteSet(buyers)
      BY OrderAssumption, FS_Subset
    <2>2. Cardinality(buyers) < 1
      <3>1. Cardinality({p \in Orders : Subscribed(p)}) < MaxSubscriptions
        BY SubscribeEffect
      <3>. QED BY <3>1
    <2>3. buyers = {}
      BY <2>1, <2>2, FS_EmptySet, FS_CardinalityType
    <2>. QED BY <2>3
  <1>2. OneOrder'
    BY <1>1, SubscribeEffect DEF OneOrder, Subscribed
  <1>3. SubscriptionTerm(o)'
    <2>1. Never >= TermEnd(o) /\ (Interval[o] = "annual" => now + Months(Interval[o]) >= TermEnd(o))
      <3>1. now \in Nat /\ now >= Ordered[o] /\ Ordered[o] \in 0..Horizon
        BY ContractRows, SubscribeEffect, OrderAssumption
      <3>. QED BY <3>1, YearAssumption DEF Never, TermEnd, Months
    <2>2. /\ subscription'[o].state = "active" /\ subscription'[o].cancelAt = Never
          /\ subscription'[o].until = now + Months(Interval[o]) /\ subscription'[o].schedule = Nothing
      <3>1. subscription'[o] = [state |-> "active", since |-> now, price |-> Interval[o], cancelAt |-> Never,
                                until |-> now + Months(Interval[o]), schedule |-> Nothing]
        BY SubscribeEffect
      <3>. QED BY <3>1
    <2>. QED BY <2>1, <2>2 DEF SubscriptionTerm, Beyond
  <1>. QED BY <1>2, <1>3, SubscribeEffect, TermFrame DEF TermInv, Subscribed, Begun

LEMMA PassTimeTerm ==
    ASSUME ContractInv, TermInv, PassTime
    PROVE  TermInv'
  <1>1. ASSUME NEW o \in Orders PROVE SubscriptionTerm(o)'
    <2>. SUFFICES ASSUME Subscribed(o) PROVE SubscriptionTerm(o)'
      BY PassTimeEffect DEF SubscriptionTerm
    <2>. DEFINE s == subscription[o]
                r == subscription'[o]
                t == now'
    <2>1. t = now + 1 /\ t \in Nat /\ now \in Nat /\ TermEnd(o) \in Nat
      BY PassTimeEffect, ContractRows, ContractConstants
    <2>2. /\ r \in SubscriptionRow /\ r.cancelAt = s.cancelAt /\ r.schedule \in {s.schedule, Nothing}
          /\ r.until = s.until \/ (r.until >= t /\ s.until <= t)
          /\ r.state = "ended" => \/ s.state = "ended"
                                  \/ s.cancelAt <= t
                                  \/ Active(s.schedule) /\ Last(schedule[s.schedule].phases).end <= t
      <3>1. subscription'[o] = AtDate(o, now')
        BY PassTimeEffect
      <3>. QED BY <2>1, <3>1, AtDateEffect
    <2>3. SubscriptionTerm(o) /\ s.cancelAt \in Nat /\ s.until \in Nat /\ s.schedule \in MaybeSchedule
      BY TermDates DEF TermInv
    <2>4. Past(o) => Past(o)'
      BY <2>1 DEF Past
    <2>5. r.state = "ended" => Past(o)'
      <3>1. CASE s.state = "ended"
        BY <2>3, <2>4, <3>1 DEF SubscriptionTerm
      <3>2. CASE s.cancelAt <= t
        BY <2>1, <2>3, <2>4, <3>2 DEF SubscriptionTerm, Beyond, Past
      <3>3. CASE Active(s.schedule) /\ Last(schedule[s.schedule].phases).end <= t
        <4>1. s.schedule \in Schedules /\ Begun(s.schedule)
          BY <2>3, <3>3, ContractRows
        <4>2. Beyond(o, Last(schedule[s.schedule].phases).end) /\ Last(schedule[s.schedule].phases).end \in Nat
          BY <4>1, OneOrderOnly, TermDates DEF TermInv, ScheduleTerm
        <4>. QED BY <2>1, <2>4, <3>3, <4>2 DEF Beyond, Past
      <3>. QED BY <2>2, <3>1, <3>2, <3>3
    <2>6. Past(o)' \/ r.cancelAt >= TermEnd(o)
      BY <2>2, <2>3, <2>4 DEF SubscriptionTerm, Beyond
    <2>7. Interval[o] = "annual" => Past(o)' \/ r.until >= TermEnd(o)
      <3>1. CASE r.until = s.until
        BY <2>3, <2>4, <3>1 DEF SubscriptionTerm, Beyond
      <3>2. CASE r.until >= t /\ s.until <= t
        BY <2>1, <2>3, <2>4, <3>2 DEF SubscriptionTerm, Beyond, Past
      <3>. QED BY <2>2, <3>1, <3>2
    <2>8. r.schedule # Nothing => \E c \in Schedules : c = r.schedule /\ Begun(c)'
      BY <2>2, <2>3, PassTimeEffect DEF SubscriptionTerm, MaybeSchedule
    <2>. QED BY <2>5, <2>6, <2>7, <2>8 DEF SubscriptionTerm, Beyond, Past, Begun
  <1>2. ASSUME NEW c \in Schedules PROVE ScheduleTerm(c)'
    <2>. SUFFICES ASSUME Begun(c) PROVE ScheduleTerm(c)'
      BY PassTimeEffect DEF ScheduleTerm
    <2>1. Beyond(schedule[c].order, Last(schedule[c].phases).end)
      BY DEF TermInv, ScheduleTerm
    <2>2. schedule[c].order \in Orders /\ Last(schedule[c].phases).end \in Nat
      BY TermDates
    <2>3. \A o \in Orders, d \in Nat : Beyond(o, d) => Beyond(o, d)'
      BY PassTimeEffect, BeyondStays
    <2>. QED BY <2>1, <2>2, <2>3, PassTimeEffect DEF ScheduleTerm, Beyond, Past
  <1>3. OneOrder'
    BY PassTimeEffect DEF TermInv, OneOrder
  <1>. QED BY <1>1, <1>2, <1>3, PassTimeEffect, TermFrame DEF TermInv

\* A row that keeps its dates, and its schedule or takes one that has begun, keeps its term.
LEMMA DatesKept ==
    ASSUME ContractInv, TermInv, now' = now, NEW o \in Orders, Subscribed(o),
           subscription'[o].state = subscription[o].state,
           subscription'[o].cancelAt = subscription[o].cancelAt \/ Beyond(o, subscription'[o].cancelAt),
           subscription'[o].until = subscription[o].until,
           subscription'[o].schedule = subscription[o].schedule
              \/ \E c \in Schedules : c = subscription'[o].schedule /\ Begun(c)',
           \A c \in Schedules : Begun(c) => Begun(c)'
    PROVE  SubscriptionTerm(o)'
  <1>1. SubscriptionTerm(o)
    BY DEF TermInv
  <1>2. subscription[o].schedule # Nothing => subscription[o].schedule \in Schedules
    BY TermDates DEF MaybeSchedule
  <1>. QED BY <1>1, <1>2 DEF SubscriptionTerm, Beyond, Past, Begun

LEMMA EventTerm ==
    ASSUME ContractInv, TermInv, NEW h \in Webhooks, NEW o \in Orders,
           CheckoutCompleted(h, o) \/ InvoicePaid(h, o) \/ SubscriptionUpdated(h, o)
    PROVE  TermInv'
  <1>1. PICK record \in HookRow :
           /\ HookBecomes(h, record) /\ record.order = o
           /\ record.at \in {"find", "create", "configure"} => Interval[o] = "annual"
           /\ record.at # "configure"
    BY EventKeeps
  <1>2. UNCHANGED <<now, stripeVars, lead, row, account>>
    BY EventKeeps
  <1>3. HookTerm(h)'
    BY <1>1 DEF HookTerm, HookBecomes
  <1>. QED BY <1>1, <1>2, <1>3, TermFrame DEF TermInv, OneOrder, Subscribed, Begun, HookBecomes

LEMMA FindTerm ==
    ASSUME ContractInv, TermInv, NEW h \in Webhooks, FindSchedule(h)
    PROVE  TermInv'
  <1>1. PICK record \in HookRow :
           /\ HookBecomes(h, record) /\ record.order = webhook[h].order
           /\ record.at # "configure"
    BY FindKeeps
  <1>2. /\ UNCHANGED <<now, stripeVars, lead, row, account>>
        /\ webhook[h] # Nothing /\ webhook[h].at = "find"
    BY FindKeeps
  <1>3. HookTerm(h)'
    BY <1>1, <1>2 DEF HookTerm, HookBecomes, TermInv
  <1>. QED BY <1>1, <1>2, <1>3, TermFrame DEF TermInv, OneOrder, Subscribed, Begun, HookBecomes

\* The first phase ends with the period that is paid.
LEMMA CreateTerm ==
    ASSUME ContractInv, TermInv, NEW h \in Webhooks, CreateSchedule(h)
    PROVE  TermInv'
  <1>. DEFINE o == webhook[h].order
  <1>1. /\ webhook[h] # Nothing /\ webhook[h].at = "create" /\ UNCHANGED <<now, configured, lead, row, account>>
        /\ o \in Orders /\ Subscribed(o)
    BY CreateKeeps
  <1>0. PICK c \in Schedules, first \in Phases : \E record :
           /\ HookBecomes(h, record) /\ record.order = o /\ record.at = "configure"
           /\ record.first = first
           /\ first.end = subscription[o].until
           /\ ~Begun(c) /\ Begun(c)' /\ \A d \in Schedules \ {c} : schedule'[d] = schedule[d]
           /\ schedule'[c].order = o /\ Last(schedule'[c].phases) = first
           /\ \A p \in Orders : (Subscribed(p)' <=> Subscribed(p))
           /\ \A p \in Orders \ {o} : subscription'[p] = subscription[p]
           /\ LET s == subscription[o]
                  r == subscription'[o]
              IN  /\ r.state = s.state /\ r.cancelAt = s.cancelAt /\ r.until = s.until
                  /\ r.schedule = c
    BY CreateKeeps
  <1>2. PICK record :
           /\ HookBecomes(h, record) /\ record.order = o /\ record.at = "configure"
           /\ record.first = first
           /\ first.end = subscription[o].until
           /\ ~Begun(c) /\ Begun(c)' /\ \A d \in Schedules \ {c} : schedule'[d] = schedule[d]
           /\ schedule'[c].order = o /\ Last(schedule'[c].phases) = first
           /\ \A p \in Orders : (Subscribed(p)' <=> Subscribed(p))
           /\ \A p \in Orders \ {o} : subscription'[p] = subscription[p]
           /\ LET s == subscription[o]
                  r == subscription'[o]
              IN  /\ r.state = s.state /\ r.cancelAt = s.cancelAt /\ r.until = s.until
                  /\ r.schedule = c
    BY <1>0
  <1>3. Interval[o] = "annual" /\ Beyond(o, first.end)
    BY <1>1, <1>2 DEF TermInv, HookTerm, SubscriptionTerm
  <1>4. HookTerm(h)'
    BY <1>1, <1>2, <1>3 DEF HookTerm, HookBecomes, Beyond, Past
  <1>5. ScheduleTerm(c)'
    BY <1>1, <1>2, <1>3 DEF ScheduleTerm, Beyond, Past
  <1>6. \A d \in Schedules : Begun(d) => Begun(d)'
    BY <1>2 DEF Begun
  <1>7. \E p \in Orders : p = o /\ SubscriptionTerm(p)'
    BY <1>1, <1>2, <1>6, DatesKept
  <1>8. \A p \in Orders : subscription'[p] = subscription[p] \/ SubscriptionTerm(p)'
    BY <1>2, <1>7
  <1>9. OneOrder'
    BY <1>2 DEF TermInv, OneOrder
  <1>. HIDE DEF o
  <1>. QED BY <1>1, <1>2, <1>4, <1>5, <1>6, <1>8, <1>9, TermFrame DEF TermInv, HookBecomes

\* Writing phases to a schedule that reach beyond the term of its order.
LEMMA PutTerm ==
    ASSUME ContractInv, TermInv, NEW c \in MaybeSchedule, NEW phases, Phased(phases),
           NEW end \in {"release", "cancel"}, PutSchedule(c, phases, end), now' = now,
           \A o \in Orders : Subscribed(o) => Beyond(o, Last(phases).end)
    PROVE  /\ OneOrder'
           /\ \A o \in Orders : Subscribed(o) => Subscribed(o)'
           /\ \A d \in Schedules : Begun(d) => Begun(d)'
           /\ \A o \in Orders : subscription'[o] = subscription[o] \/ SubscriptionTerm(o)'
           /\ \A d \in Schedules : schedule'[d] = schedule[d] \/ ScheduleTerm(d)'
  <1>1. /\ c \in Schedules /\ Begun(c) /\ Subscribed(schedule[c].order) /\ schedule[c].order \in Orders
        /\ schedule'[c].phases = phases /\ schedule'[c].end = end /\ schedule'[c].order = schedule[c].order
        /\ \A d \in Schedules \ {c} : schedule'[d] = schedule[d]
        /\ \A d \in Schedules : Begun(d)' <=> Begun(d)
        /\ \A o \in Orders : (Subscribed(o)' <=> Subscribed(o))
        /\ \A o \in Orders : Subscribed(o) =>
              /\ subscription'[o].cancelAt = subscription[o].cancelAt
              /\ subscription'[o].until = subscription[o].until
              /\ subscription'[o].state = subscription[o].state
              /\ subscription'[o].schedule = subscription[o].schedule
    BY PutEffect
  <1>2. OneOrder'
    BY <1>1 DEF TermInv, OneOrder
  <1>3. ASSUME NEW o \in Orders PROVE SubscriptionTerm(o)'
    <2>1. CASE ~Subscribed(o)
      BY <1>1, <2>1 DEF SubscriptionTerm
    <2>2. CASE Subscribed(o)
      BY <1>1, <2>2, DatesKept
    <2>. QED BY <2>1, <2>2
  <1>4. ScheduleTerm(c)'
    BY <1>1 DEF ScheduleTerm, Beyond, Past
  <1>. QED BY <1>1, <1>2, <1>3, <1>4

LEMMA ConfigureTerm ==
    ASSUME ContractInv, TermInv, NEW h \in Webhooks, ConfigureSchedule(h)
    PROVE  TermInv'
  <1>. DEFINE phases == AnnualThenMonthly(webhook[h].first)
              c == webhook[h].schedule
  <1>1. /\ webhook[h] # Nothing /\ webhook[h].at = "configure"
        /\ UNCHANGED <<now, lead, row, account>>
        /\ webhook[h].order \in Orders /\ Subscribed(webhook[h].order) /\ webhook[h].first \in Phases
        /\ PutSchedule(c, phases, "release")
        /\ c \in MaybeSchedule /\ Phased(phases)
        /\ Last(phases).end >= webhook[h].first.end
    BY ConfigureKeeps
  <1>2. PICK record : /\ HookBecomes(h, record) /\ record.order = webhook[h].order
                      /\ record.at \in {"lead", "row"}
    BY ConfigureKeeps
  <1>3. Beyond(webhook[h].order, Last(phases).end)
    <2>1. Beyond(webhook[h].order, webhook[h].first.end)
      BY <1>1 DEF TermInv, HookTerm
    <2>2. Last(phases).end \in Nat /\ webhook[h].first.end \in Nat /\ TermEnd(webhook[h].order) \in Nat
      <3>1. Last(phases) \in Phases
        BY <1>1, PhasesBegin
      <3>2. \A q \in Phases : q.end \in Nat
        BY DEF Phases
      <3>. QED BY <1>1, <3>1, <3>2, ContractConstants
    <2>. QED BY <1>1, <2>1, <2>2 DEF Beyond
  <1>. HIDE DEF phases, c
  <1>4. \A o \in Orders : Subscribed(o) => Beyond(o, Last(phases).end)
    BY <1>1, <1>3, OneOrderOnly
  <1>5. HookTerm(h)'
    BY <1>2 DEF HookTerm, HookBecomes
  <1>6. /\ OneOrder'
        /\ \A o \in Orders : Subscribed(o) => Subscribed(o)'
        /\ \A d \in Schedules : Begun(d) => Begun(d)'
        /\ \A o \in Orders : subscription'[o] = subscription[o] \/ SubscriptionTerm(o)'
        /\ \A d \in Schedules : schedule'[d] = schedule[d] \/ ScheduleTerm(d)'
    BY <1>1, <1>4, PutTerm
  <1>. QED BY <1>1, <1>2, <1>5, <1>6, TermFrame DEF TermInv, HookBecomes

LEMMA RecordTerm ==
    ASSUME ContractInv, TermInv, NEW h \in Webhooks,
           RecordLead(h) \/ ActivateRow(h) \/ SyncDetails(h) \/ WebhookFails(h)
    PROVE  TermInv'
  <1>1. /\ UNCHANGED <<now, stripeVars, account>>
        /\ row' # Nothing => \/ row # Nothing /\ row'.order = row.order /\ row'.term = row.term
                             \/ row'.order \in Orders /\ row'.term = TermEnd(row'.order)
    BY RecordKeeps
  <1>2. PICK record : HookBecomes(h, record) /\ (record # Nothing => record.at = "sync")
    BY RecordKeeps
  <1>3. HookTerm(h)'
    BY <1>2 DEF HookTerm, HookBecomes
  <1>. QED BY <1>1, <1>2, <1>3, TermFrame DEF TermInv, OneOrder, Subscribed, Begun, HookBecomes

\* The account's date is the term, or comes after it.
LEMMA OpenTerm ==
    ASSUME ContractInv, TermInv, NEW a \in Accounts, NEW cancel \in BOOLEAN, OpenAccount(a, cancel)
    PROVE  TermInv'
  <1>1. row # Nothing /\ row \in CustomerRow /\ UNCHANGED <<now, stripeVars, lead, row, webhook>>
    BY OpenKeeps
  <1>2. PICK record : /\ AccountBecomes(a, record) /\ record.order = row.order /\ record.at = "read"
                      /\ record.cancel = cancel
                      /\ cancel => record.date = PermittedDate
    BY OpenKeeps
  <1>3. Beyond(row.order, PermittedDate)
    <2>1. row.term = TermEnd(row.order) /\ row.order \in Orders
      BY <1>1 DEF TermInv, CustomerRow
    <2>2. TermEnd(row.order) \in Nat /\ now \in Nat
      BY <2>1, ContractConstants, ContractRows
    <2>. QED BY <2>1, <2>2 DEF PermittedDate, Beyond, Past
  <1>4. AccountTerm(a)'
    BY <1>1, <1>2, <1>3 DEF AccountTerm, AccountBecomes, Beyond, Past
  <1>. QED BY <1>1, <1>2, <1>4, TermFrame DEF TermInv, OneOrder, Subscribed, Begun, AccountBecomes

LEMMA ReadTerm ==
    ASSUME ContractInv, TermInv, NEW a \in Accounts, ReadSchedule(a)
    PROVE  TermInv'
  <1>1. account[a] # Nothing /\ account[a].order \in Orders /\ UNCHANGED <<now, stripeVars, lead, row, webhook>>
    BY ReadKeeps
  <1>2. PICK record :
           /\ AccountBecomes(a, record) /\ record.order = account[a].order
           /\ record.cancel = account[a].cancel /\ record.date = account[a].date
           /\ record.at = "write" =>
                 /\ Phased(record.phases)
                 /\ \E c \in Schedules :
                      /\ Begun(c)
                      /\ \/ account[a].cancel
                            /\ Last(record.phases).end \in {account[a].date, Last(schedule[c].phases).end}
                         \/ Last(record.phases).end >= Last(schedule[c].phases).end
    BY ReadKeeps
  <1>3. AccountTerm(a) /\ Subscribed(account[a].order)
    BY <1>1, TermDates DEF TermInv
  <1>4. ASSUME record.at = "write" PROVE Beyond(account[a].order, Last(record.phases).end)
    <2>1. PICK c \in Schedules :
             /\ Begun(c)
             /\ \/ account[a].cancel
                   /\ Last(record.phases).end \in {account[a].date, Last(schedule[c].phases).end}
                \/ Last(record.phases).end >= Last(schedule[c].phases).end
      BY <1>2, <1>4
    <2>2. Last(record.phases).end \in Nat
      <3>1. Last(record.phases) \in Phases
        BY <1>2, <1>4, PhasesBegin
      <3>. QED BY <3>1 DEF Phases
    <2>3. Beyond(account[a].order, Last(schedule[c].phases).end) /\ Last(schedule[c].phases).end \in Nat
      BY <1>1, <1>3, <2>1, OneOrderOnly, TermDates DEF TermInv, ScheduleTerm
    <2>4. account[a].cancel => Beyond(account[a].order, account[a].date)
      BY <1>1, <1>3 DEF AccountTerm
    <2>5. TermEnd(account[a].order) \in Nat
      BY <1>1, ContractConstants
    <2>. QED BY <2>1, <2>2, <2>3, <2>4, <2>5 DEF Beyond
  <1>5. AccountTerm(a)'
    BY <1>1, <1>2, <1>3, <1>4 DEF AccountTerm, AccountBecomes, Beyond, Past
  <1>. QED BY <1>1, <1>2, <1>5, TermFrame DEF TermInv, OneOrder, Subscribed, Begun, AccountBecomes

LEMMA WriteTerm ==
    ASSUME ContractInv, TermInv, NEW a \in Accounts, WriteSchedule(a)
    PROVE  TermInv'
  <1>. DEFINE phases == account[a].phases
              c == account[a].schedule
  <1>1. /\ account[a] # Nothing /\ account[a].at = "write"
        /\ account[a].order \in Orders /\ Subscribed(account[a].order)
        /\ UNCHANGED <<now, configured, lead, row, webhook>> /\ AccountBecomes(a, Nothing)
        /\ c \in MaybeSchedule /\ Phased(phases)
    BY WriteKeeps
  <1>2. PICK end \in {"release", "cancel"} : PutSchedule(c, phases, end)
    BY WriteKeeps
  <1>3. Beyond(account[a].order, Last(phases).end)
    BY <1>1 DEF TermInv, AccountTerm
  <1>. HIDE DEF phases, c
  <1>4. \A o \in Orders : Subscribed(o) => Beyond(o, Last(phases).end)
    BY <1>1, <1>3, OneOrderOnly
  <1>5. AccountTerm(a)'
    BY <1>1 DEF AccountTerm, AccountBecomes
  <1>6. /\ OneOrder'
        /\ \A o \in Orders : Subscribed(o) => Subscribed(o)'
        /\ \A d \in Schedules : Begun(d) => Begun(d)'
        /\ \A o \in Orders : subscription'[o] = subscription[o] \/ SubscriptionTerm(o)'
        /\ \A d \in Schedules : schedule'[d] = schedule[d] \/ ScheduleTerm(d)'
    BY <1>1, <1>2, <1>4, PutTerm
  <1>. QED BY <1>1, <1>5, <1>6, TermFrame DEF TermInv, AccountBecomes

\* A date that has passed since the request chose it makes the end of the paid period the date,
\* and then the term has passed too.
LEMMA CancelTerm ==
    ASSUME ContractInv, TermInv, NEW a \in Accounts, CancelDirectly(a)
    PROVE  TermInv'
  <1>. DEFINE o == account[a].order
              date == IF ~account[a].cancel THEN Never
                      ELSE IF account[a].date > now THEN account[a].date ELSE subscription[o].until
  <1>1. /\ account[a] # Nothing /\ o \in Orders /\ Subscribed(o)
        /\ UNCHANGED <<now, schedule, configured, lead, row, webhook>> /\ AccountBecomes(a, Nothing)
        /\ \A p \in Orders : (Subscribed(p)' <=> Subscribed(p))
        /\ \A p \in Orders \ {o} : subscription'[p] = subscription[p]
        /\ subscription'[o].state = subscription[o].state /\ subscription'[o].until = subscription[o].until
        /\ subscription'[o].schedule = subscription[o].schedule /\ subscription'[o].cancelAt = date
    BY CancelKeeps
  <1>2. Beyond(o, date)
    <2>1. Never >= TermEnd(o)
      BY <1>1, YearAssumption, OrderAssumption DEF Never, TermEnd
    <2>2. now \in Nat /\ TermEnd(o) \in Nat /\ account[a].date \in Nat
      BY <1>1, ContractRows, ContractConstants, AccountOrder
    <2>3. account[a].cancel => Beyond(o, account[a].date)
      BY <1>1 DEF TermInv, AccountTerm
    <2>4. CASE ~account[a].cancel
      BY <2>1, <2>4 DEF Beyond
    <2>5. CASE account[a].cancel /\ account[a].date > now
      BY <2>3, <2>5
    <2>6. CASE account[a].cancel /\ ~(account[a].date > now)
      BY <2>2, <2>3, <2>6 DEF Beyond, Past
    <2>. QED BY <2>4, <2>5, <2>6
  <1>. HIDE DEF date
  <1>3. \E p \in Orders : p = o /\ SubscriptionTerm(p)'
    BY <1>1, <1>2, DatesKept DEF Begun
  <1>4. \A p \in Orders : subscription'[p] = subscription[p] \/ SubscriptionTerm(p)'
    BY <1>1, <1>3
  <1>5. AccountTerm(a)'
    BY <1>1 DEF AccountTerm, AccountBecomes
  <1>6. OneOrder'
    BY <1>1 DEF TermInv, OneOrder
  <1>. HIDE DEF o
  <1>. QED BY <1>1, <1>4, <1>5, <1>6, TermFrame DEF TermInv, AccountBecomes, Begun

LEMMA AccountFailsTerm ==
    ASSUME ContractInv, TermInv, NEW a \in Accounts, AccountFails(a)
    PROVE  TermInv'
  <1>1. UNCHANGED <<now, stripeVars, lead, row, webhook>> /\ AccountBecomes(a, Nothing)
    BY AccountFailsKeeps
  <1>2. AccountTerm(a)'
    BY <1>1 DEF AccountTerm, AccountBecomes
  <1>. QED BY <1>1, <1>2, TermFrame DEF TermInv, OneOrder, Subscribed, Begun, AccountBecomes

LEMMA TermInductive ==
    ASSUME MaxSubscriptions = 1
    PROVE  ContractInv /\ TermInv /\ [ContractNext]_contractVars => TermInv'
  <1>. SUFFICES ASSUME ContractInv, TermInv, [ContractNext]_contractVars PROVE TermInv'
    OBVIOUS
  <1>1. CASE UNCHANGED <<now, stripeVars, row, webhook, account>>
    BY <1>1, TermFrame DEF TermInv, OneOrder, Subscribed, Begun
  <1>2. ASSUME NEW h \in Webhooks, WebhookStep(h) PROVE TermInv'
    BY <1>2, EventTerm, FindTerm, CreateTerm, ConfigureTerm, RecordTerm DEF WebhookStep
  <1>3. ASSUME NEW a \in Accounts, AccountStep(a) PROVE TermInv'
    BY <1>3, OpenTerm, ReadTerm, WriteTerm, CancelTerm, AccountFailsTerm DEF AccountStep
  <1>. QED BY <1>1, <1>2, <1>3, SubscribeTerm, LeadMovesKeeps, PassTimeTerm DEF ContractNext

\* A buyer's one subscription never ends before the term agreed to with its order, whatever webhook
\* and account requests meet, fail and repeat.  (With two orders it may: that is a finding.)
THEOREM OneOrderKeepsItsTerm ==
    ASSUME MaxSubscriptions = 1
    PROVE  ContractSpec => []TermIsKept
  <1>1. ASSUME ContractInv, TermInv PROVE TermIsKept
    BY <1>1, ContractRows DEF TermInv, TermIsKept, SubscriptionTerm, Past, Subscribed, NoSubscription
  <1>2. ContractInit => ContractInv /\ TermInv
    BY ContractInitially, TermInitially
  <1>3. ContractInv /\ TermInv /\ [ContractNext]_contractVars => ContractInv' /\ TermInv'
    BY ContractInductive, TermInductive
  <1>. QED BY <1>1, <1>2, <1>3, PTL DEF ContractSpec
=============================================================================
