-------------------------- MODULE MarketingStudio --------------------------
(***************************************************************************)
(* Review and publication of marketing campaigns: the worker and the command *)
(* line publish a campaign's approved posts, the administration approves and *)
(* publishes one post, and both may be at it at once.  Statements and calls  *)
(* to a network are steps; a transaction under row locks is one step.        *)
(***************************************************************************)
EXTENDS Naturals, FiniteSets

CONSTANTS
    Campaigns,
    Posts, CampaignOf, \* marketing_posts and their campaign_id
    TikTokPosts,       \* those for TikTok, where an upload is a draft first
    Publishers,        \* publication runs and requests that can overlap
    MaxSlips,        \* lost requests and answers, and processes that end, in a behaviour
    MaxLive            \* how often one post goes out in a behaviour

ASSUME CampaignsAssumption == CampaignOf \in [Posts -> Campaigns] /\ TikTokPosts \subseteq Posts
ASSUME SlipsAssumption == MaxSlips \in Nat /\ MaxLive \in Nat

VARIABLES
    campaign,  \* marketing_campaigns.status
    post,      \* marketing_posts: status, approval, and whether the network's id is stored
    live,      \* how often the network has taken the post
    rejecting, \* campaigns whose rejection has updated the campaign and not yet the posts
    refreshing, \* TikTok posts whose status is being asked for
    publisher, \* what each run or request is doing
    overlapped, \* two of them were at work at the same time
    slips,     \* requests, answers and statements that were lost
    stops      \* error handlers that failed and processes that ended

midway == <<rejecting, refreshing>>
studioVars == <<campaign, post, live, midway, publisher, overlapped, slips, stops>>

CampaignStatus == {"pending_review", "approved", "publishing", "partially_published",
                   "published", "failed", "rejected"}
PostStatus == (CampaignStatus \ {"partially_published"}) \cup {"uploaded_draft"}
Editable == {"pending_review", "approved", "failed"}
PostsOf(c) == {p \in Posts : CampaignOf[p] = c}

\* role: a run over a campaign, or a request for one post; post: the row in hand.
Starting(at, role, inCampaign, inHand) ==
    [at |-> at, role |-> role, campaign |-> inCampaign, todo |-> {}, post |-> inHand,
     published |-> FALSE, failed |-> FALSE]
Resting == Starting("rest", "none", {}, {})

StudioInit ==
    /\ campaign = [c \in Campaigns |-> "pending_review"]
    /\ post = [p \in Posts |-> [status |-> "pending_review", approved |-> FALSE, stored |-> FALSE]]
    /\ live = [p \in Posts |-> 0]
    /\ rejecting = {} /\ refreshing = {} /\ overlapped = FALSE
    /\ publisher = [q \in Publishers |-> Resting]
    /\ slips = 0 /\ stops = 0

Slip == slips + stops < MaxSlips /\ slips' = slips + 1 /\ UNCHANGED stops
StopHere == slips + stops < MaxSlips /\ stops' = stops + 1 /\ UNCHANGED slips
Smooth == UNCHANGED <<slips, stops>>

Gated == {"publishing", "published", "uploaded_draft"}

OpenToPublish == {"approved", "publishing", "published", "partially_published"}

\* Mutant: the trigger looks at the campaign only.
GateOfCampaign(p) == campaign[CampaignOf[p]] \in OpenToPublish

\* enforce_marketing_publish_gate: an update that sets a gated status throws without it.
Gate(p) ==
    /\ campaign[CampaignOf[p]] \in OpenToPublish
    /\ post[p].approved

PublisherAt(q, step) == publisher[q].at = step
GoOn(q, step) == publisher' = [publisher EXCEPT ![q].at = step]
Rest(q) == publisher' = [publisher EXCEPT ![q] = Resting]
InHand(q, p) == publisher[q].post = {p}
IsRun(q) == publisher[q].role = "run"

Begin(q, state) ==
    /\ publisher' = [publisher EXCEPT ![q] = state]
    /\ overlapped' = (overlapped \/ \E other \in Publishers \ {q} : ~PublisherAt(other, "rest"))

-----------------------------------------------------------------------------
(* Review.                                                                   *)

Unsettled == {"pending_review", "failed", "partially_published"}

ApproveCampaign(c) ==
    /\ campaign[c] \in Unsettled
    /\ campaign' = [campaign EXCEPT ![c] = "approved"]
    /\ post' = [p \in Posts |->
                  IF p \in PostsOf(c) /\ post[p].status \in {"pending_review", "failed"}
                  THEN [post[p] EXCEPT !.status = "approved", !.approved = TRUE] ELSE post[p]]
    /\ UNCHANGED <<live, rejecting, refreshing, publisher, overlapped>> /\ Smooth

\* Mutant: a campaign can be rejected as long as a part of it is open.
NotFinished(c) == campaign[c] \in Unsettled

Unreviewed(c) == campaign[c] = "pending_review"

RejectCampaign(c) ==
    /\ c \notin rejecting
    /\ campaign' = [campaign EXCEPT ![c] = IF Unreviewed(c) THEN "rejected" ELSE @]
    /\ rejecting' = rejecting \cup {c}
    /\ UNCHANGED <<post, live, refreshing, publisher, overlapped>> /\ Smooth

\* The second statement does not look at what the first one did; it may never run.
RejectPosts(c) ==
    /\ c \in rejecting
    /\ rejecting' = rejecting \ {c}
    /\ \/ /\ post' = [p \in Posts |->
                        IF p \in PostsOf(c) /\ post[p].status = "pending_review"
                        THEN [post[p] EXCEPT !.status = "rejected"] ELSE post[p]]
          /\ Smooth
       \/ UNCHANGED post /\ StopHere
    /\ UNCHANGED <<campaign, live, refreshing, publisher, overlapped>>

Withdrawn(p) == [status |-> "pending_review", approved |-> FALSE, stored |-> FALSE]

\* updateTikTokPost, updateRedditPost, updateInstagramPost
EditPost(p) ==
    /\ post[p].status \in Editable
    /\ post' = [post EXCEPT ![p] = Withdrawn(p)]
    /\ UNCHANGED <<campaign, live, rejecting, refreshing, publisher, overlapped>> /\ Smooth

\* approveAndClaim*Post: the post's row is locked, the campaign's status decides.
ClaimPost(q, p) ==
    /\ PublisherAt(q, "rest")
    /\ post[p].status \in Editable
    /\ campaign[CampaignOf[p]] \in Unsettled \cup {"approved"}
    /\ campaign' = [campaign EXCEPT ![CampaignOf[p]] = "approved"]
    /\ post' = [post EXCEPT ![p].status = "publishing", ![p].approved = TRUE]
    /\ Begin(q, Starting("send", "request", {}, {p}))
    /\ UNCHANGED <<live, midway>> /\ Smooth

-----------------------------------------------------------------------------
(* publishMarketingCampaign                                                  *)

ReadCampaign(q, c) ==
    /\ PublisherAt(q, "rest")
    /\ campaign[c] = "approved"
    /\ Begin(q, Starting("read", "run", {c}, {}))
    /\ UNCHANGED <<campaign, post, live, midway>> /\ Smooth

\* Mutant: the approval is looked at instead of the status.
ApprovedOnce(c) == {p \in PostsOf(c) : post[p].approved}

ApprovedPosts(c) == {p \in PostsOf(c) : post[p].status = "approved"}

ReadPosts(q, c) ==
    /\ PublisherAt(q, "read") /\ publisher[q].campaign = {c}
    /\ IF ApprovedPosts(c) = {} THEN Rest(q)
       ELSE publisher' = [publisher EXCEPT ![q].at = "mark", ![q].todo = ApprovedPosts(c)]
    /\ UNCHANGED <<campaign, post, live, midway, overlapped>> /\ Smooth

MarkCampaign(q, c) ==
    /\ PublisherAt(q, "mark") /\ publisher[q].campaign = {c}
    /\ campaign' = [campaign EXCEPT ![c] = "publishing"]
    /\ GoOn(q, "next")
    /\ UNCHANGED <<post, live, midway, overlapped>> /\ Smooth

StartPost(q, p) ==
    /\ PublisherAt(q, "next") /\ p \in publisher[q].todo
    /\ publisher' = [publisher EXCEPT ![q].at = IF Gate(p) THEN "send" ELSE "fail",
                                      ![q].todo = @ \ {p}, ![q].post = {p}]
    /\ post' = IF Gate(p) THEN [post EXCEPT ![p].status = "publishing"] ELSE post
    /\ UNCHANGED <<campaign, live, midway, overlapped>> /\ Smooth

FinishCampaign(q, c) ==
    /\ PublisherAt(q, "next") /\ publisher[q].todo = {} /\ publisher[q].campaign = {c}
    /\ campaign' = [campaign EXCEPT ![c] =
                      IF ~publisher[q].failed THEN "published"
                      ELSE IF publisher[q].published THEN "partially_published" ELSE "failed"]
    /\ Rest(q)
    /\ UNCHANGED <<post, live, midway, overlapped>> /\ Smooth

-----------------------------------------------------------------------------
(* One post, on the way of a run or of a request.                            *)

Taken(p) == live[p] < MaxLive /\ live' = [live EXCEPT ![p] = @ + 1]

\* The network takes the post and answers, or it does not answer in time.
Send(q, p) ==
    /\ PublisherAt(q, "send") /\ InHand(q, p)
    /\ \/ Taken(p) /\ GoOn(q, "posted") /\ Smooth
       \/ Taken(p) /\ GoOn(q, "fail") /\ Slip
       \/ UNCHANGED live /\ GoOn(q, "fail") /\ Slip
    /\ UNCHANGED <<campaign, post, midway, overlapped>>

PostDone(q, outcome) ==
    publisher' = [publisher EXCEPT ![q].at = "next", ![q].post = {},
                                   ![q].published = @ \/ outcome = "published",
                                   ![q].failed = @ \/ outcome = "failed"]

RecordPublished(q, p) ==
    /\ PublisherAt(q, "posted") /\ InHand(q, p)
    /\ IsRun(q) \/ p \notin TikTokPosts
    /\ IF Gate(p)
       THEN /\ post' = [post EXCEPT ![p].status = "published", ![p].stored = TRUE]
            /\ IF IsRun(q) THEN PostDone(q, "published") ELSE GoOn(q, "campaign")
       ELSE UNCHANGED post /\ GoOn(q, "fail")
    /\ UNCHANGED <<campaign, live, midway, overlapped>> /\ Smooth

\* markTikTokDraftUploaded: one transaction, followed by a look at the network's status.
RecordUploaded(q, p) ==
    /\ PublisherAt(q, "posted") /\ InHand(q, p)
    /\ ~IsRun(q) /\ p \in TikTokPosts
    /\ IF post[p].status = "publishing" /\ ~Gate(p)
       THEN UNCHANGED <<campaign, post>> /\ GoOn(q, "fail")
       ELSE /\ post' = [post EXCEPT ![p] = IF @.status # "publishing" THEN @
                                           ELSE [@ EXCEPT !.status = "uploaded_draft", !.stored = TRUE]]
            /\ campaign' = [campaign EXCEPT ![CampaignOf[p]] = "partially_published"]
            /\ Rest(q)
    /\ UNCHANGED <<live, midway, overlapped>> /\ Smooth

ReadForStatus(p) ==
    /\ p \in TikTokPosts /\ post[p].stored /\ p \notin refreshing
    /\ refreshing' = refreshing \cup {p}
    /\ UNCHANGED <<campaign, post, live, rejecting, publisher, overlapped>> /\ Smooth

\* saveTikTokPostStatus: whatever the network answered, whatever has happened to the row; the
\* request can also fail, or the trigger refuse.
SaveStatus(p) ==
    /\ p \in refreshing
    /\ refreshing' = refreshing \ {p}
    /\ \/ \E s \in Gated \cup {"failed"} :
             /\ s \in Gated => Gate(p)
             /\ post' = [post EXCEPT ![p].status = s]
       \/ UNCHANGED post
    /\ UNCHANGED <<campaign, live, rejecting, publisher, overlapped>> /\ Smooth

\* Mutant: the catch block forgets the status.
LeavePublishing(p) == post

FailedPost(p) == [post EXCEPT ![p].status = "failed"]

RecordFailed(q, p) ==
    /\ PublisherAt(q, "fail") /\ InHand(q, p)
    /\ post' = FailedPost(p)
    /\ IF IsRun(q) THEN PostDone(q, "failed") ELSE GoOn(q, "campaign failed")
    /\ UNCHANGED <<campaign, live, midway, overlapped>> /\ Smooth

SetCampaign(q, p) ==
    /\ ~PublisherAt(q, "rest") /\ ~IsRun(q) /\ InHand(q, p)
    /\ \/ PublisherAt(q, "campaign")
          /\ campaign' = [campaign EXCEPT ![CampaignOf[p]] = "partially_published"]
       \/ PublisherAt(q, "campaign failed")
          /\ campaign' = [campaign EXCEPT ![CampaignOf[p]] =
                            IF @ \in {"approved", "publishing", "partially_published"}
                            THEN "failed" ELSE @]
    /\ Rest(q)
    /\ UNCHANGED <<post, live, midway, overlapped>> /\ Smooth

\* A statement that throws after the call succeeded leads to the catch block; anywhere else
\* the error, like the end of the process, leaves the rows as they are.
StatementThrows(q) ==
    /\ publisher[q].at \in {"posted", "campaign"}
    /\ Slip /\ GoOn(q, "fail")
    /\ UNCHANGED <<campaign, post, live, midway, overlapped>>

PublisherEnds(q) ==
    /\ ~PublisherAt(q, "rest")
    /\ StopHere /\ Rest(q)
    /\ UNCHANGED <<campaign, post, live, midway, overlapped>>

PublisherStep(q) ==
    \/ \E c \in Campaigns : ReadPosts(q, c) \/ MarkCampaign(q, c) \/ FinishCampaign(q, c)
    \/ \E p \in Posts : \/ StartPost(q, p) \/ Send(q, p) \/ RecordPublished(q, p)
                        \/ RecordUploaded(q, p) \/ RecordFailed(q, p) \/ SetCampaign(q, p)
    \/ StatementThrows(q) \/ PublisherEnds(q)

StudioNext ==
    \/ \E c \in Campaigns : ApproveCampaign(c) \/ RejectCampaign(c) \/ RejectPosts(c)
    \/ \E p \in Posts : EditPost(p) \/ ReadForStatus(p) \/ SaveStatus(p)
    \/ \E q \in Publishers : \/ \E p \in Posts : ClaimPost(q, p)
                             \/ \E c \in Campaigns : ReadCampaign(q, c)
                             \/ PublisherStep(q)

StudioSpec == StudioInit /\ [][StudioNext]_studioVars

-----------------------------------------------------------------------------
(* Properties                                                                *)

PostRow == [status : PostStatus, approved : BOOLEAN, stored : BOOLEAN]
Working == {"rest", "read", "mark", "next", "send", "posted", "campaign", "fail",
            "campaign failed"}
PublisherRow == [at : Working, role : {"none", "run", "request"}, campaign : SUBSET Campaigns,
                 todo : SUBSET Posts, post : SUBSET Posts, published : BOOLEAN, failed : BOOLEAN]

\* Every row and publisher holds what the code can write there.
StudioTypeOK ==
    /\ campaign \in [Campaigns -> CampaignStatus]
    /\ post \in [Posts -> PostRow]
    /\ live \in [Posts -> 0..MaxLive]
    /\ rejecting \subseteq Campaigns /\ refreshing \subseteq Posts /\ overlapped \in BOOLEAN
    /\ publisher \in [Publishers -> PublisherRow]
    /\ slips \in Nat /\ stops \in Nat

\* Whatever is approved, edited and retried meanwhile, nothing of a campaign that was rejected
\* reaches a network, before or after.
RejectedNeverGoesOut ==
    \A p \in Posts : campaign[CampaignOf[p]] = "rejected" => live[p] = 0

\* What is on its way, uploaded or published carries an approval, and no edit has withdrawn it.
PublishedIsApproved == \A p \in Posts : post[p].status \in Gated => post[p].approved

\* Only a process that ends, or an error while recording an error, leaves a post or a campaign
\* 'publishing' with nobody working on it.
NothingIsStranded ==
    stops = 0 =>
        /\ \A p \in Posts \ TikTokPosts :
              post[p].status = "publishing" => \E q \in Publishers : InHand(q, p)
        /\ \A c \in Campaigns :
              campaign[c] = "publishing" => \E q \in Publishers : publisher[q].campaign = {c}

\* As long as no two publications overlap, a post goes out again only after a mishap.  The
\* status of an uploaded draft is the network's and can reopen it.
RepostNeedsMishap ==
    ~overlapped => \A p \in Posts \ TikTokPosts : live[p] <= 1 + slips + stops

\* docs/marketing_agent.md: "posts that were already published are not duplicated".
NotDuplicated == \A p \in Posts \ TikTokPosts : live[p] <= 1 + slips + stops
=============================================================================
