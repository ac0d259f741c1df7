---------------------------- MODULE MCWorkerJobs ----------------------------
(***************************************************************************)
(* The worker's jobs and the administration's requests side by side.  They   *)
(* share no table, so a behaviour is about one of them, its focus: all the   *)
(* others rest.  The same names serve as processes, and as data, in each.    *)
(***************************************************************************)
EXTENDS PredictionArchive, RevenueOutbox, MarketingStudio, EditorialOutreach, JobAttempts,
        SocialConnections, NewsletterIssue, TLC

CONSTANTS
    Foci,
    Errors, Outages, Uncertains,       \* MaxFaults of PredictionArchive
    MostFaults,                        \* and of all three kinds together
    Other, OtherTikTok, Pair, PairTikTok \* marketing posts

VARIABLE focus

FaultBound == [f \in Faults |-> CASE f = "error" -> Errors
                                  [] f = "outage" -> Outages
                                  [] f = "uncertain" -> Uncertains]

\* One campaign with one post, one with one for TikTok, one with one of each.
StudioPosts == {Other, OtherTikTok, Pair, PairTikTok}
PostCampaign == [p \in StudioPosts |-> IF p = Other THEN "post"
                                       ELSE IF p = OtherTikTok THEN "draft" ELSE "posts"]
PostsForTikTok == {OtherTikTok, PairTikTok}

TwoAttempts == [j \in Tasks |-> 2]

Interchangeable == Permutations(Requests) \cup Permutations(People)

allVars == <<vars, outboxVars, studioVars, outreachVars, jobVars, socialVars, newsVars, focus>>

-----------------------------------------------------------------------------
Faulted == faults["error"] + faults["outage"] + faults["uncertain"]

\* The provider withholds the result of one fixture at most, and before the first fault.
ArchiveStory ==
    /\ Next
    /\ Faulted' <= MostFaults
    /\ \A m \in Matches : provider'[m] = "withheld" =>
          m = (CHOOSE n \in Matches : TRUE) /\ Faulted' = 0

\* Purchases; mails about leads, by one run at a time; mails about customers, by one run that
\* meets no mishap; and a customer's failed payment, mailed by overlapping runs.
OutboxFoci == {"sales", "leads", "customers", "payment"}

BusyJobs == {d \in Deliverers : ~JobAt(d, "idle")}

\* What a focus leaves alone.
OutboxStory ==
    /\ OutboxNext
    /\ focus = "sales" => <<worldVars, mail>>' = <<worldVars, mail>>
    /\ focus = "leads" =>
          /\ <<usage, failing, sale>>' = <<usage, failing, sale>> /\ Cardinality(BusyJobs') <= 1
          /\ \A k \in MailKeys : k.type = "payment_failed" => mail'[k] = "none"
    /\ focus = "customers" =>
          <<stage, sale, mishaps>>' = <<stage, sale, mishaps>> /\ Cardinality(BusyJobs') <= 1
    /\ focus = "payment" => <<worldVars, sale>>' = <<worldVars, sale>>

StudioFoci == {"post", "draft", "posts"}

StudioStory ==
    /\ StudioNext
    /\ \A c \in Campaigns \ {focus} : campaign'[c] = campaign[c] /\ c \notin rejecting'
    /\ \A p \in Posts \ PostsOf(focus) : post'[p] = post[p]
    /\ focus = "posts" => /\ slips' + stops' = 0
                          /\ \A p \in Posts : live'[p] <= 1

-----------------------------------------------------------------------------

Archive(step) ==
    /\ focus = "archive" /\ step
    /\ UNCHANGED <<outboxVars, studioVars, outreachVars, jobVars, socialVars, newsVars, focus>>
Outbox(step) ==
    /\ focus \in OutboxFoci /\ step
    /\ UNCHANGED <<vars, studioVars, outreachVars, jobVars, socialVars, newsVars, focus>>
Studio(step) ==
    /\ focus \in StudioFoci /\ step
    /\ UNCHANGED <<vars, outboxVars, outreachVars, jobVars, socialVars, newsVars, focus>>
Outreach(step) ==
    /\ focus = "outreach" /\ step
    /\ UNCHANGED <<vars, outboxVars, studioVars, jobVars, socialVars, newsVars, focus>>
Queueing(step) ==
    /\ focus = "attempts" /\ step
    /\ UNCHANGED <<vars, outboxVars, studioVars, outreachVars, socialVars, newsVars, focus>>
Social(step) ==
    /\ focus = "social" /\ step
    /\ UNCHANGED <<vars, outboxVars, studioVars, outreachVars, jobVars, newsVars, focus>>
News(step) ==
    /\ focus = "news" /\ step
    /\ UNCHANGED <<vars, outboxVars, studioVars, outreachVars, jobVars, socialVars, focus>>

WorkerInit ==
    /\ focus \in Foci
    /\ Init /\ OutboxInit /\ StudioInit /\ OutreachInit /\ JobsInit /\ SocialInit /\ NewsInit
    /\ usage = [c \in Customers |-> IF focus = "customers" THEN 0 ELSE 1]
    /\ focus # "social" => network = "tiktok"

WorkerNext ==
    \/ Archive(ArchiveStory)
    \/ Outbox(OutboxStory)
    \/ Studio(StudioStory)
    \/ Outreach(OutreachNext)
    \/ Queueing(JobsNext)
    \/ Social(SocialNext)
    \/ News(NewsNext)

WorkerSpec == WorkerInit /\ [][WorkerNext]_allVars

\* The fairness of PredictionArchive, JobAttempts and RevenueOutbox.
WorkerFairness ==
    /\ \A r \in Runs : WF_allVars(Archive(StartRun(r))) /\ WF_allVars(Archive(RunStep(r)))
    /\ \A a \in Answers, p \in Profiles : WF_allVars(Archive(ProperWriteStep(a, p)))
    /\ \A s \in Scorers : WF_allVars(Archive(StartScores(s))) /\ WF_allVars(Archive(ScorerStep(s)))
    /\ \A s \in Syncers : WF_allVars(Archive(SyncerStep(s)))
    /\ \A j \in Tasks : /\ WF_allVars(Queueing(Recover(j)))
                        /\ WF_allVars(Queueing(\E h \in Hands : Fetch(h, j)))
    /\ \A h \in Hands : WF_allVars(Queueing(\E j \in Tasks : HandStep(h, j)))
    /\ \A d \in Jobs : WF_allVars(Outbox(SelectSales(d)))
    /\ \A d \in Deliverers : WF_allVars(Outbox(JobStep(d)))

WorkerFairSpec == WorkerSpec /\ WorkerFairness

-----------------------------------------------------------------------------
\* Every table and process of every focus holds what the code can write there.
WorkerTypeOK ==
    /\ TypeOK /\ OutboxTypeOK /\ StudioTypeOK /\ OutreachTypeOK /\ JobsTypeOK /\ SocialTypeOK
    /\ NewsTypeOK

\* EveryFixtureIsPredicted of PredictionArchive, where the prediction job is at work.
FixturesArePredicted == focus = "archive" => EveryFixtureIsPredicted
=============================================================================
