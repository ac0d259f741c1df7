----------------------------- MODULE MCServices -----------------------------
(***************************************************************************)
(* The paid widget and the services around it, each on its own: they share   *)
(* no table that both write, so a behaviour is about one of them, its scene, *)
(* while the others rest.                                                    *)
(***************************************************************************)
EXTENDS MCWidgetBilling, OddsRefresh, BackupExport, CustomerSignIn, AdminLogin

CONSTANTS
    Scenes,
    Football, Tennis, FootballKey, TennisKey, First, \* OddsRefresh
    CustomerA, CustomerB, LeadA, ReminderA           \* BackupExport

VARIABLE scene

siteVars == <<vars, oddsVars, backupVars, signInVars, loginVars, scene>>

-----------------------------------------------------------------------------
\* Two payments meet an error or a lost answer, three that come in together are refused or not by
\* the tables alone.
PaymentStory == Next /\ (emitted' = Events => \A f \in Faults : faults'[f] = 0)

\* A match the code has a key for, and one whose key only the catalogue has: both soon, or one of
\* them, or one late enough for several checks.
TwoMatches == {Football, Tennis}
ConfiguredKeys == [m \in TwoMatches |-> IF m = Football THEN {FootballKey} ELSE {}]
TourKeys == [m \in TwoMatches |-> IF m = Tennis THEN {TennisKey} ELSE {}]
Planned(football, tennis) == [m \in TwoMatches |-> IF m = Football THEN football ELSE tennis]
SomeSchedules == {Planned(2, 2), Planned(2, 0), Planned(0, 4)}

\* Two matches that compete for the limit meet no errors; a second execution overlaps the first
\* once, where one match is soon and its fixture, which they agree on, is stored.  The catalogue
\* names the keys of the matches that are played.
OddsStory ==
    /\ OddsNext
    /\ planned = Planned(2, 2) => mishaps' = 0
    /\ planned[Tennis] = 0 => \A j \in Refreshers : UNION refresh'[j].catalogue \subseteq {FootballKey}
    /\ \A j \in Refreshers \ {First} :
          refresh'[j].at # "idle" => overlapped' /\ planned = Planned(2, 0)
                                     /\ (Refreshing(j, "idle") =>
                                           ~overlapped /\ ~Refreshing(First, "fixtures"))

\* Two customers, a lead that is linked to one of them or to none, and a reminder of widget_automation_
\* events that goes with the lead and the first customer.
SomeRows == {CustomerA, CustomerB, LeadA, ReminderA}
RowTable == [r \in SomeRows |-> CASE r = LeadA -> 2 [] r = ReminderA -> 3 [] OTHER -> 1]
RowParents == [r \in SomeRows |-> IF r = ReminderA THEN {CustomerA, LeadA} ELSE {}]
RowNames == [r \in SomeRows |-> IF r = LeadA THEN {CustomerA, CustomerB} ELSE {}]

\* Others write while the first attempt reads: what they write before is an initial state, what they
\* write later is not in the file.  A second attempt follows one whose object came back damaged, and
\* meets neither errors nor writes.
BackupStory ==
    /\ BackupNext
    /\ live' # live \/ named' # named => ExportAt(First, "reading")
    /\ \A e \in Exports \ {First} : export'[e].at # "absent" =>
          ExportAt(First, "failed") /\ errors' = 0

\* The process restarts where all are blocked, the address too.
LoginStory == LoginNext /\ (restarts' # restarts => \A k \in LimitKeys : Blocks(k))

-----------------------------------------------------------------------------
Billing(step) ==
    /\ scene = "billing" /\ step
    /\ UNCHANGED <<oddsVars, backupVars, signInVars, loginVars, scene>>
Refreshment(step) ==
    /\ scene = "odds" /\ step
    /\ UNCHANGED <<vars, backupVars, signInVars, loginVars, scene>>
Backup(step) ==
    /\ scene = "backup" /\ step
    /\ UNCHANGED <<vars, oddsVars, signInVars, loginVars, scene>>
SignIn(step) ==
    /\ scene = "sign-in" /\ step
    /\ UNCHANGED <<vars, oddsVars, backupVars, loginVars, scene>>
Login(step) ==
    /\ scene = "login" /\ step
    /\ UNCHANGED <<vars, oddsVars, backupVars, signInVars, scene>>

SiteInit ==
    /\ scene \in Scenes
    /\ Init /\ OddsInit /\ BackupInit /\ SignInInit /\ LoginInit
    /\ scene # "odds" => planned = Planned(2, 2)
    /\ scene # "backup" => live = {}

SiteNext ==
    \/ Billing(PaymentStory)
    \/ Refreshment(OddsStory)
    \/ Backup(BackupStory)
    \/ SignIn(SignInNext)
    \/ Login(LoginStory)

\* The fairness of WidgetBilling and of OddsRefresh.
SiteFairness ==
    /\ \A r \in Requests : WF_siteVars(Billing(HandlerStep(r)))
    /\ \A e \in Events : WF_siteVars(Billing(\E r \in Requests : Deliver(r, e)))
    /\ WF_siteVars(Refreshment(ResetQuota))
    /\ WF_siteVars(Refreshment(\E j \in Refreshers : Begin(j)))
    /\ \A j \in Refreshers : WF_siteVars(Refreshment(RefreshStep(j)))

SiteSpec == SiteInit /\ [][SiteNext]_siteVars /\ SiteFairness

-----------------------------------------------------------------------------
\* Links and sessions of customers, and failed logins of the administration, stay within their
\* limits however requests overlap.
SignInsAreLimited ==
    SignInTypeOK /\ LinksAreLimited /\ OneSessionPerLink /\ LoginTypeOK /\ FailuresAreBounded
=============================================================================
