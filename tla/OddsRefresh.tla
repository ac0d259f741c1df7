---------------------------- MODULE OddsRefresh ----------------------------
(***************************************************************************)
(* The job that refreshes bookmaker odds: it stores the coming fixtures,    *)
(* lists the matches that are due for a check, asks the odds provider, and  *)
(* records for every listed match what came of it.                          *)
(***************************************************************************)
EXTENDS Naturals, FiniteSets

CONSTANTS
    Matches,
    OddsKeys,    \* the provider's sport keys
    Configured,  \* the keys the code knows for a match, without the provider's catalogue
    Tour,        \* the keys only the catalogue can add: the tournaments of a tennis tour
    Refreshers,  \* executions of the job that may overlap
    Schedules,   \* the kick-offs matches may be planned for at first; 0 for one that is not played
    Lookahead,   \* ODDS_REFRESH_LOOKAHEAD_DAYS
    Daily,       \* ODDS_REFRESH_DAILY_INTERVAL_MINUTES
    PreMatch,    \* ODDS_REFRESH_PRE_MATCH_MINUTES
    MatchLimit,  \* ODDS_REFRESH_MAX_MATCHES_PER_RUN
    Horizon,     \* the last moment of a behaviour
    MaxMishaps   \* errors, overlaps, postponements and spent quotas in a behaviour

ASSUME OddsAssumption ==
    /\ Configured \in [Matches -> SUBSET OddsKeys] /\ Tour \in [Matches -> SUBSET OddsKeys]
    /\ Schedules \subseteq [Matches -> 0..Horizon]
    /\ IsFiniteSet(Matches) /\ Horizon \in Nat
    /\ Lookahead \in Nat \ {0} /\ Daily \in Nat \ {0} /\ PreMatch \in Nat \ {0} /\ MatchLimit \in Nat \ {0}
    /\ MaxMishaps \in Nat

VARIABLES
    now,
    planned,    \* the kick-off the sports provider names
    kickoff,    \* matches.utc_date; 0 while the match is not stored
    storing,    \* fixtures whose upserts are under way, by execution
    odds,       \* match_odds.checked_at_utc; 0 without odds
    snapshot,   \* match_data_snapshots of odds: match and time
    check,      \* odds_refresh_checks, with the kick-off that was listed
    refresh,    \* what each execution is doing
    quota,      \* the provider's remaining requests: "left" or "spent"
    overlapped, \* whether two executions were at work at a time
    mishaps

oddsVars == <<now, planned, kickoff, storing, odds, snapshot, check, refresh, quota, overlapped,
              mishaps>>

\* listed: candidates of listMatchesDueForOddsRefresh; catalogue: the active keys, if there is one;
\* offered: candidates with usable odds; checkedAt: when the current candidate was taken up.
Resting == [at |-> "idle", fixtures |-> {}, listed |-> {}, catalogue |-> {}, failed |-> {},
            offered |-> {}, current |-> {}, checkedAt |-> 0]

OddsInit ==
    /\ now = 0 /\ planned \in Schedules
    /\ kickoff = [m \in Matches |-> 0]
    /\ storing = [j \in Refreshers |-> {}]
    /\ odds = [m \in Matches |-> 0]
    /\ snapshot = {} /\ check = {}
    /\ refresh = [j \in Refreshers |-> Resting]
    /\ quota = "left" /\ overlapped = FALSE /\ mishaps = 0

Mishap == mishaps < MaxMishaps /\ mishaps' = mishaps + 1
Refreshing(j, step) == refresh[j].at = step
Rest(j) == refresh' = [refresh EXCEPT ![j] = Resting]

-----------------------------------------------------------------------------
(* The world.                                                                *)

Tick ==
    /\ now < Horizon /\ now' = now + 1
    /\ UNCHANGED <<planned, kickoff, storing, odds, snapshot, check, refresh, quota, overlapped,
                   mishaps>>

Postpone(m) ==
    /\ now < planned[m] /\ planned[m] < Horizon /\ Mishap
    /\ planned' = [planned EXCEPT ![m] = @ + 1]
    /\ UNCHANGED <<now, kickoff, storing, odds, snapshot, check, refresh, quota, overlapped>>

SpendQuota ==
    /\ quota = "left" /\ Mishap /\ quota' = "spent"
    /\ UNCHANGED <<now, planned, kickoff, storing, odds, snapshot, check, refresh, overlapped>>

ResetQuota ==
    /\ quota = "spent" /\ quota' = "left"
    /\ UNCHANGED <<now, planned, kickoff, storing, odds, snapshot, check, refresh, overlapped,
                   mishaps>>

-----------------------------------------------------------------------------
(* Storing fixtures and listing candidates.                                  *)

\* The queue runs one execution at a time, but for a lost lock or a deployment.
Begin(j) ==
    /\ Refreshing(j, "idle")
    /\ LET fixtures == {[match |-> m, when |-> planned[m]] : m \in {n \in Matches : planned[n] > now}}
       IN  /\ refresh' = [refresh EXCEPT ![j] = [Resting EXCEPT !.at = "fixtures", !.fixtures = fixtures]]
           /\ storing' = [storing EXCEPT ![j] = @ \cup fixtures]
    /\ IF \E i \in Refreshers : ~Refreshing(i, "idle")
       THEN Mishap /\ overlapped' = TRUE
       ELSE UNCHANGED <<mishaps, overlapped>>
    /\ UNCHANGED <<now, planned, kickoff, odds, snapshot, check, quota>>

\* The upserts run at the same time, and go on when one of them has failed the execution.
StoreFixture(j, f) ==
    /\ f \in storing[j]
    /\ storing' = [storing EXCEPT ![j] = @ \ {f}]
    /\ \/ kickoff' = [kickoff EXCEPT ![f.match] = f.when] /\ UNCHANGED <<refresh, mishaps>>
       \/ f \in refresh[j].fixtures /\ Mishap /\ Rest(j) /\ UNCHANGED kickoff
    /\ UNCHANGED <<now, planned, odds, snapshot, check, quota, overlapped>>

ChecksOf(m) == {c \in check : c.match = m}

\* Mutant: the window ends where it should begin.
NeverRecent(m) == \E c \in ChecksOf(m) : c.at >= kickoff[m]

CheckedBeforeMatch(m) == \E c \in ChecksOf(m) : c.at + PreMatch >= kickoff[m] /\ c.at <= now

Nearby(m) == kickoff[m] <= now + PreMatch /\ ~CheckedBeforeMatch(m)
Overdue(m) == \A c \in ChecksOf(m) : c.at + Daily <= now

\* A match that has not begun has no final status.
IsDue(m) ==
    kickoff[m] > now /\ kickoff[m] <= now + Lookahead /\ (Overdue(m) \/ Nearby(m))

Reason(m) == IF Nearby(m) THEN "pre_match" ELSE IF ChecksOf(m) = {} THEN "initial" ELSE "daily"

\* order by utc_date limit: the earliest of the matches that are due.
Candidates ==
    LET due == {m \in Matches : IsDue(m)}
    IN  {L \in SUBSET due :
            /\ Cardinality(L) = IF Cardinality(due) < MatchLimit THEN Cardinality(due) ELSE MatchLimit
            /\ \A m \in L, n \in due \ L : kickoff[m] <= kickoff[n]}

ListDue(j) ==
    /\ Refreshing(j, "fixtures") /\ refresh[j].fixtures \cap storing[j] = {}
    /\ \E L \in Candidates :
          IF L = {} THEN Rest(j)
          ELSE refresh' = [refresh EXCEPT ![j].at = "catalogue", ![j].fixtures = {},
                  ![j].listed = {[match |-> m, when |-> kickoff[m], reason |-> Reason(m)] : m \in L}]
    /\ UNCHANGED <<now, planned, kickoff, storing, odds, snapshot, check, quota, overlapped, mishaps>>

-----------------------------------------------------------------------------
(* Asking the provider.                                                      *)

\* The catalogue's answer names the quota; one that leaves it out reads as spent, since Number(null)
\* is 0. A catalogue that cannot be read, or is empty, is none.
ReadCatalogue(j) ==
    /\ Refreshing(j, "catalogue")
    /\ \/ /\ IF quota = "spent" THEN Rest(j)
             ELSE \E catalogue \in {{}} \cup {{active} : active \in SUBSET OddsKeys} :
                     refresh' = [refresh EXCEPT ![j].at = "events", ![j].catalogue = catalogue]
          /\ UNCHANGED mishaps
       \/ refresh' = [refresh EXCEPT ![j].at = "events"] /\ Mishap
    /\ UNCHANGED <<now, planned, kickoff, storing, odds, snapshot, check, quota, overlapped>>

\* getCandidateOddsKeys: without a catalogue the configured keys, with one its active keys.
KeysOf(m, catalogue) ==
    IF catalogue = {} THEN Configured[m]
    ELSE (Configured[m] \cup Tour[m]) \cap UNION catalogue

\* Every key is asked for its events, a key with an event of a candidate for its odds; the key's
\* error is kept with it. Odds are found among the events of the keys that answered.
FetchEvents(j) ==
    /\ Refreshing(j, "events")
    /\ LET r == refresh[j]
           requested == UNION {KeysOf(c.match, r.catalogue) : c \in r.listed}
       IN  \E failed \in SUBSET requested :
             \E offered \in SUBSET {c \in r.listed : ~(KeysOf(c.match, r.catalogue) \subseteq failed)} :
                /\ refresh' = [refresh EXCEPT ![j].at = "next", ![j].failed = failed,
                                              ![j].offered = offered]
                /\ IF failed = {} THEN UNCHANGED mishaps ELSE Mishap
    /\ UNCHANGED <<now, planned, kickoff, storing, odds, snapshot, check, quota, overlapped>>

-----------------------------------------------------------------------------
(* Recording the outcome, one candidate after the other.                     *)

\* The time of the check is taken before anything is written.
TakeUp(j) ==
    /\ Refreshing(j, "next")
    /\ \E c \in refresh[j].listed :
          /\ \A d \in refresh[j].listed : c.when <= d.when
          /\ refresh' = [refresh EXCEPT ![j].at = IF c \in refresh[j].offered THEN "odds" ELSE "check",
                            ![j].listed = @ \ {c}, ![j].current = {c}, ![j].checkedAt = now]
    /\ UNCHANGED <<now, planned, kickoff, storing, odds, snapshot, check, quota, overlapped, mishaps>>

WriteOdds(j) ==
    /\ Refreshing(j, "odds")
    /\ \E c \in refresh[j].current : odds' = [odds EXCEPT ![c.match] = refresh[j].checkedAt]
    /\ refresh' = [refresh EXCEPT ![j].at = "snapshot"]
    /\ UNCHANGED <<now, planned, kickoff, storing, snapshot, check, quota, overlapped, mishaps>>

WriteSnapshot(j) ==
    /\ Refreshing(j, "snapshot")
    /\ \E c \in refresh[j].current :
          snapshot' = snapshot \cup {[match |-> c.match, at |-> refresh[j].checkedAt]}
    /\ refresh' = [refresh EXCEPT ![j].at = "check"]
    /\ UNCHANGED <<now, planned, kickoff, storing, odds, check, quota, overlapped, mishaps>>

Outcome(j, c) ==
    LET keys == KeysOf(c.match, refresh[j].catalogue)
    IN  CASE keys = {} -> "unsupported"
          [] c \in refresh[j].offered -> "available"
          [] keys \subseteq refresh[j].failed -> "error"
          [] OTHER -> "unavailable"

\* Mutant: a match nobody offers odds for is passed over.
Supported(j, c) == Outcome(j, c) # "unsupported"

Recorded(j, c) == TRUE

\* After the last candidate the execution ends; by an error if every key's request failed, which
\* makes the queue start it again, when nothing is due any more.
WriteCheck(j) ==
    /\ Refreshing(j, "check")
    /\ check' = check \cup {[match |-> c.match, when |-> c.when, reason |-> c.reason,
                             status |-> Outcome(j, c), at |-> refresh[j].checkedAt] :
                            c \in {d \in refresh[j].current : Recorded(j, d)}}
    /\ IF refresh[j].listed = {} THEN Rest(j)
       ELSE refresh' = [refresh EXCEPT ![j].at = "next", ![j].current = {}]
    /\ UNCHANGED <<now, planned, kickoff, storing, odds, snapshot, quota, overlapped, mishaps>>

\* A request or a statement throws, or the process ends, and the upserts under way with it.
Break(j) ==
    /\ ~Refreshing(j, "idle") /\ Mishap /\ Rest(j)
    /\ storing' \in {storing, [storing EXCEPT ![j] = {}]}
    /\ UNCHANGED <<now, planned, kickoff, odds, snapshot, check, quota, overlapped>>

RefreshStep(j) ==
    \/ (\E f \in storing[j] : StoreFixture(j, f)) \/ ListDue(j) \/ ReadCatalogue(j) \/ FetchEvents(j)
    \/ TakeUp(j) \/ WriteOdds(j) \/ WriteSnapshot(j) \/ WriteCheck(j)

OddsNext ==
    \/ Tick \/ SpendQuota \/ ResetQuota \/ \E m \in Matches : Postpone(m)
    \/ \E j \in Refreshers : Begin(j) \/ RefreshStep(j) \/ Break(j)

\* The queue repeats the job, a process runs what is ready, the provider resets its quota.
OddsFairness ==
    /\ WF_oddsVars(ResetQuota)
    /\ WF_oddsVars(\E j \in Refreshers : Begin(j))
    /\ \A j \in Refreshers : WF_oddsVars(RefreshStep(j))

OddsSpec == OddsInit /\ [][OddsNext]_oddsVars
OddsFairSpec == OddsSpec /\ OddsFairness

-----------------------------------------------------------------------------
(* Properties                                                                *)

\* Every table and execution holds what the code can write there.
OddsTypeOK ==
    /\ now \in 0..Horizon /\ mishaps \in 0..MaxMishaps /\ overlapped \in BOOLEAN
    /\ planned \in [Matches -> 0..Horizon] /\ kickoff \in [Matches -> 0..Horizon]
    /\ odds \in [Matches -> 0..Horizon] /\ quota \in {"left", "spent"}
    /\ snapshot \subseteq [match : Matches, at : 0..Horizon]
    /\ check \subseteq [match : Matches, when : 1..Horizon, reason : {"pre_match", "initial", "daily"},
                        status : {"available", "unavailable", "error", "unsupported"}, at : 0..Horizon]
    /\ \A j \in Refreshers : /\ Cardinality(refresh[j].current) <= 1
                             /\ Cardinality(refresh[j].listed) <= MatchLimit
                             /\ refresh[j].failed \subseteq OddsKeys

\* Whatever fails in between, a check that says odds are available has them and their snapshot
\* behind it; and one execution at a time never goes back to older odds.
AvailableIsBacked ==
    \A c \in check : c.status = "available" =>
        /\ [match |-> c.match, at |-> c.at] \in snapshot
        /\ ~overlapped => odds[c.match] >= c.at

\* One execution at a time, retried or not, asks about a match again only after the daily
\* interval or, once, in the last minutes before a kick-off; a postponed kick-off has its own.
ChecksAreSpaced ==
    ~overlapped =>
        \A c, d \in check : (c.match = d.match /\ c # d /\ c.at <= d.at) =>
            \/ d.reason = "daily" /\ c.at + Daily <= d.at
            \/ d.reason = "pre_match" /\ c.at + PreMatch < d.when

\* What the table of checks tells is true, and is not paid for twice.
OddsAreAccounted == OddsTypeOK /\ AvailableIsBacked /\ ChecksAreSpaced

\* A match that is due is checked, unless it begins first: errors, pauses and the limit only delay.
DueIsChecked == \A m \in Matches : IsDue(m) ~> ~IsDue(m)
=============================================================================
