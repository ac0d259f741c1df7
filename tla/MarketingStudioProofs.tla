------------------------ MODULE MarketingStudioProofs ------------------------
(***************************************************************************)
(* MarketingStudio: what can be published, twice or at all, for any number   *)
(* of campaigns, posts, publications at a time and mishaps.                  *)
(***************************************************************************)
EXTENDS MarketingStudio, TLAPS

USE DEF studioVars, midway

\* A post's own steps on the way to the network.
PostSteps == {"send", "posted", "campaign", "fail", "campaign failed"}

-----------------------------------------------------------------------------
(* The inductive invariant                                                   *)

\* A publisher at rest has nothing in hand, a run a campaign of whose posts it has some to do, a
\* request one post.
RecordOK(w) ==
    /\ w.at = "rest" => w = Resting
    /\ w.at \in {"read", "mark", "next"} => w.role = "run" /\ w.post = {}
    /\ w.at \in {"campaign", "campaign failed"} => w.role # "run"
    /\ w.at \in PostSteps => \E p \in Posts : w.post = {p}
    /\ w.role = "run" =>
          \E c \in Campaigns : w.campaign = {c} /\ w.todo \cup w.post \subseteq PostsOf(c)
    /\ w.role # "run" => w.campaign = {} /\ w.todo = {}
    /\ w.post \cap w.todo = {}

PublisherOK == \A q \in Publishers : RecordOK(publisher[q])

\* Nobody has begun to publish a campaign before its review, or after its rejection.
Fresh(c) == campaign[c] \in {"pending_review", "rejected"}
Spared(w, c) == w.campaign # {c} /\ w.post \cap PostsOf(c) = {}
Cold(c) == /\ \A p \in PostsOf(c) : live[p] = 0
           /\ \A q \in Publishers : Spared(publisher[q], c)
Untouched == \A c \in Campaigns : Fresh(c) => Cold(c)

\* Only uploads to TikTok are asked for.
RefreshingOK == refreshing \subseteq TikTokPosts

\* A post is 'publishing' in somebody's hands, a campaign in a run's.
Holder(w, p) == w.post = {p} /\ w.at \in {"send", "posted", "fail"}
Runner(w, c) == w.campaign = {c} /\ w.at \in {"next", "send", "posted", "fail"}
BusyPosts ==
    stops = 0 => \A p \in Posts \ TikTokPosts : post[p].status = "publishing" =>
                    \E q \in Publishers : Holder(publisher[q], p)
BusyCampaigns ==
    stops = 0 => \A c \in Campaigns : campaign[c] = "publishing" =>
                    \E q \in Publishers : Runner(publisher[q], c)

\* The network has the post, and the row says so or is about to.
Spent(p) ==
    \/ post[p].status = "published"
    \/ \E q \in Publishers : PublisherAt(q, "posted") /\ InHand(q, p)

\* Without overlap one publisher is at work, the post in its hands passes the gate until the
\* network has it, what it has still to do is not published yet, and every time but one that
\* the network took a post there was a mishap.
OneAtWork == \A q1, q2 \in Publishers : q1 # q2 => PublisherAt(q1, "rest") \/ PublisherAt(q2, "rest")
InOrder(w, p) ==
    /\ (w.post = {p} /\ w.at \in {"send", "posted"}) => post[p].status = "publishing" /\ Gate(p)
    /\ p \in w.todo => post[p].status # "published"
    /\ (w.post = {p} /\ w.at = "fail") => live[p] <= slips + stops
Accounted(p) == live[p] <= slips + stops + (IF Spent(p) THEN 1 ELSE 0)
Alone ==
    ~overlapped =>
        /\ OneAtWork
        /\ \A p \in Posts \ TikTokPosts :
              Accounted(p) /\ \A q \in Publishers : InOrder(publisher[q], p)

StudioInv ==
    /\ StudioTypeOK /\ PublisherOK /\ RefreshingOK /\ Untouched /\ PublishedIsApproved
    /\ BusyPosts /\ BusyCampaigns /\ Alone

-----------------------------------------------------------------------------
(* What a step does to a publisher and to a post                             *)

OthersWait(q) == \A u \in Publishers : u # q => publisher'[u] = publisher[u]

Becomes(q, at, todo, hand) ==
    /\ publisher' \in [Publishers -> PublisherRow]
    /\ publisher'[q].at = at /\ publisher'[q].todo = todo /\ publisher'[q].post = hand
    /\ publisher'[q].role = publisher[q].role /\ publisher'[q].campaign = publisher[q].campaign
    /\ OthersWait(q)

Rests(q) ==
    publisher' \in [Publishers -> PublisherRow] /\ publisher'[q] = Resting /\ OthersWait(q)

PostBecomes(p, status, approved) ==
    /\ post' \in [Posts -> PostRow]
    /\ post'[p].status = status /\ post'[p].approved = approved
    /\ \A o \in Posts : o # p => post'[o] = post[o]

LEMMA StudioRows == StudioTypeOK => /\ publisher \in [Publishers -> PublisherRow]
                              /\ post \in [Posts -> PostRow]
BY DEF StudioTypeOK

LEMMA GoingOn ==
    ASSUME StudioTypeOK, NEW q \in Publishers, NEW at \in Working, GoOn(q, at)
    PROVE  Becomes(q, at, publisher[q].todo, publisher[q].post)
BY StudioRows DEF GoOn, PublisherRow, Working, Becomes, OthersWait

LEMMA GoingToRest ==
    ASSUME StudioTypeOK, NEW q \in Publishers, Rest(q)
    PROVE  Rests(q)
BY StudioRows DEF Rest, Rests, PublisherRow, Working, Resting, Starting, OthersWait

LEMMA PostsListed ==
    ASSUME StudioTypeOK, NEW q \in Publishers, NEW todo \in SUBSET Posts,
           publisher' = [publisher EXCEPT ![q].at = "mark", ![q].todo = todo]
    PROVE  Becomes(q, "mark", todo, publisher[q].post)
BY StudioRows DEF PublisherRow, Working, Becomes, OthersWait

LEMMA PostTakenUp ==
    ASSUME StudioTypeOK, NEW q \in Publishers, NEW at \in Working, NEW p \in Posts,
           publisher' = [publisher EXCEPT ![q].at = at, ![q].todo = @ \ {p}, ![q].post = {p}]
    PROVE  Becomes(q, at, publisher[q].todo \ {p}, {p})
  <1>1. publisher[q].todo \ {p} \in SUBSET Posts /\ {p} \in SUBSET Posts
    BY StudioRows DEF PublisherRow
  <1>2. /\ publisher'[q].at = at /\ publisher'[q].todo = publisher[q].todo \ {p}
        /\ publisher'[q].post = {p}
        /\ publisher'[q].role = publisher[q].role /\ publisher'[q].campaign = publisher[q].campaign
        /\ OthersWait(q)
    BY StudioRows DEF PublisherRow, OthersWait
  <1>3. publisher'[q] \in PublisherRow
    BY <1>1, StudioRows DEF PublisherRow
  <1>4. publisher' \in [Publishers -> PublisherRow]
    BY <1>3, StudioRows
  <1>. QED BY <1>2, <1>4 DEF Becomes

LEMMA PostPutDown ==
    ASSUME StudioTypeOK, NEW q \in Publishers, NEW outcome \in {"published", "failed"},
           PostDone(q, outcome)
    PROVE  Becomes(q, "next", publisher[q].todo, {})
  <1>1. /\ (publisher[q].published \/ outcome = "published") \in BOOLEAN
        /\ (publisher[q].failed \/ outcome = "failed") \in BOOLEAN
    OBVIOUS
  <1>2. publisher'[q] \in PublisherRow
    BY <1>1, StudioRows DEF PublisherRow, Working, PostDone
  <1>3. publisher' \in [Publishers -> PublisherRow]
    BY <1>2, StudioRows DEF PostDone
  <1>4. publisher'[q].at = "next" /\ publisher'[q].todo = publisher[q].todo
        /\ publisher'[q].post = {}
    BY StudioRows DEF PublisherRow, PostDone
  <1>. QED BY <1>3, <1>4, StudioRows DEF PostDone, PublisherRow, Becomes, OthersWait

LEMMA StatusSet ==
    ASSUME StudioTypeOK, NEW p \in Posts, NEW status \in PostStatus,
           post' = [post EXCEPT ![p].status = status]
    PROVE  PostBecomes(p, status, post[p].approved)
BY StudioRows DEF PostRow, PostBecomes

LEMMA StatusAndIdSet ==
    ASSUME StudioTypeOK, NEW p \in Posts, NEW status \in PostStatus,
           post' = [post EXCEPT ![p].status = status, ![p].stored = TRUE]
    PROVE  PostBecomes(p, status, post[p].approved)
BY StudioRows DEF PostRow, PostBecomes

LEMMA PostClaimed ==
    ASSUME StudioTypeOK, NEW p \in Posts,
           post' = [post EXCEPT ![p].status = "publishing", ![p].approved = TRUE]
    PROVE  PostBecomes(p, "publishing", TRUE)
BY StudioRows DEF PostRow, PostBecomes, PostStatus, CampaignStatus

-----------------------------------------------------------------------------
(* The steps of a publisher                                                  *)

SameBudget == UNCHANGED <<slips, stops>>

LEMMA ClaimStep ==
    ASSUME StudioTypeOK, NEW q \in Publishers, NEW p \in Posts, ClaimPost(q, p)
    PROVE  /\ publisher' \in [Publishers -> PublisherRow] /\ OthersWait(q)
           /\ publisher'[q] = Starting("send", "request", {}, {p})
           /\ PublisherAt(q, "rest") /\ post[p].status \in Editable
           /\ campaign[CampaignOf[p]] \in Unsettled \cup {"approved"}
           /\ campaign' = [campaign EXCEPT ![CampaignOf[p]] = "approved"]
           /\ PostBecomes(p, "publishing", TRUE)
           /\ overlapped' = (overlapped \/ \E u \in Publishers \ {q} : ~PublisherAt(u, "rest"))
           /\ UNCHANGED <<live, midway>> /\ SameBudget
  <1>1. Starting("send", "request", {}, {p}) \in PublisherRow
    BY DEF Starting, PublisherRow, Working
  <1>. QED BY <1>1, StudioRows, PostClaimed DEF ClaimPost, Begin, OthersWait, Smooth, SameBudget

LEMMA ReadCampaignStep ==
    ASSUME StudioTypeOK, NEW q \in Publishers, NEW c \in Campaigns, ReadCampaign(q, c)
    PROVE  /\ publisher' \in [Publishers -> PublisherRow] /\ OthersWait(q)
           /\ publisher'[q] = Starting("read", "run", {c}, {})
           /\ PublisherAt(q, "rest") /\ campaign[c] = "approved"
           /\ overlapped' = (overlapped \/ \E u \in Publishers \ {q} : ~PublisherAt(u, "rest"))
           /\ UNCHANGED <<campaign, post, live, midway>> /\ SameBudget
  <1>1. Starting("read", "run", {c}, {}) \in PublisherRow
    BY DEF Starting, PublisherRow, Working
  <1>. QED BY <1>1, StudioRows DEF ReadCampaign, Begin, OthersWait, Smooth, SameBudget

LEMMA ReadPostsStep ==
    ASSUME StudioTypeOK, NEW q \in Publishers, NEW c \in Campaigns, ReadPosts(q, c)
    PROVE  /\ PublisherAt(q, "read") /\ publisher[q].campaign = {c}
           /\ Rests(q) \/ Becomes(q, "mark", ApprovedPosts(c), publisher[q].post)
           /\ UNCHANGED <<campaign, post, live, midway, overlapped>> /\ SameBudget
  <1>1. ApprovedPosts(c) \in SUBSET Posts
    BY DEF ApprovedPosts, PostsOf
  <1>. QED BY <1>1, GoingToRest, PostsListed DEF ReadPosts, Smooth, SameBudget

LEMMA MarkCampaignStep ==
    ASSUME StudioTypeOK, NEW q \in Publishers, NEW c \in Campaigns, MarkCampaign(q, c)
    PROVE  /\ PublisherAt(q, "mark") /\ publisher[q].campaign = {c}
           /\ campaign' = [campaign EXCEPT ![c] = "publishing"]
           /\ Becomes(q, "next", publisher[q].todo, publisher[q].post)
           /\ UNCHANGED <<post, live, midway, overlapped>> /\ SameBudget
  <1>1. "next" \in Working BY DEF Working
  <1>. QED BY <1>1, GoingOn DEF MarkCampaign, Smooth, SameBudget

LEMMA FinishCampaignStep ==
    ASSUME StudioTypeOK, NEW q \in Publishers, NEW c \in Campaigns, FinishCampaign(q, c)
    PROVE  /\ PublisherAt(q, "next") /\ publisher[q].campaign = {c}
           /\ \E s \in {"published", "partially_published", "failed"} :
                 campaign' = [campaign EXCEPT ![c] = s]
           /\ Rests(q)
           /\ UNCHANGED <<post, live, midway, overlapped>> /\ SameBudget
BY GoingToRest DEF FinishCampaign, Smooth, SameBudget

LEMMA StartPostStep ==
    ASSUME StudioTypeOK, NEW q \in Publishers, NEW p \in Posts, StartPost(q, p)
    PROVE  /\ PublisherAt(q, "next") /\ p \in publisher[q].todo
           /\ Becomes(q, IF Gate(p) THEN "send" ELSE "fail", publisher[q].todo \ {p}, {p})
           /\ IF Gate(p) THEN PostBecomes(p, "publishing", post[p].approved) ELSE UNCHANGED post
           /\ UNCHANGED <<campaign, live, midway, overlapped>> /\ SameBudget
  <1>1. (IF Gate(p) THEN "send" ELSE "fail") \in Working /\ "publishing" \in PostStatus
    BY DEF Working, PostStatus, CampaignStatus
  <1>. QED BY <1>1, PostTakenUp, StatusSet DEF StartPost, Smooth, SameBudget

LEMMA SendStep ==
    ASSUME StudioTypeOK, NEW q \in Publishers, NEW p \in Posts, Send(q, p)
    PROVE  /\ PublisherAt(q, "send") /\ InHand(q, p)
           /\ stops' = stops /\ live' \in [Posts -> 0..MaxLive]
           /\ \A o \in Posts : o # p => live'[o] = live[o]
           /\ \/ /\ Becomes(q, "posted", publisher[q].todo, publisher[q].post)
                 /\ live'[p] = live[p] + 1 /\ slips' = slips
              \/ /\ Becomes(q, "fail", publisher[q].todo, publisher[q].post)
                 /\ live'[p] \in {live[p], live[p] + 1} /\ slips' = slips + 1
           /\ UNCHANGED <<campaign, post, midway, overlapped>>
  <1>1. "posted" \in Working /\ "fail" \in Working BY DEF Working
  <1>2. live \in [Posts -> 0..MaxLive] BY DEF StudioTypeOK
  <1>3. Taken(p) => /\ live' \in [Posts -> 0..MaxLive] /\ live'[p] = live[p] + 1
                    /\ \A o \in Posts : o # p => live'[o] = live[o]
    BY <1>2, SlipsAssumption DEF Taken
  <1>4. GoOn(q, "posted") => Becomes(q, "posted", publisher[q].todo, publisher[q].post)
    BY <1>1, GoingOn
  <1>5. GoOn(q, "fail") => Becomes(q, "fail", publisher[q].todo, publisher[q].post)
    BY <1>1, GoingOn
  <1>. QED BY <1>2, <1>3, <1>4, <1>5 DEF Send, Smooth, Slip

LEMMA RecordPublishedStep ==
    ASSUME StudioTypeOK, NEW q \in Publishers, NEW p \in Posts, RecordPublished(q, p)
    PROVE  /\ PublisherAt(q, "posted") /\ InHand(q, p) /\ (IsRun(q) \/ p \notin TikTokPosts)
           /\ \/ /\ Gate(p) /\ PostBecomes(p, "published", post[p].approved)
                 /\ \/ IsRun(q) /\ Becomes(q, "next", publisher[q].todo, {})
                    \/ ~IsRun(q) /\ Becomes(q, "campaign", publisher[q].todo, publisher[q].post)
              \/ /\ ~Gate(p) /\ UNCHANGED post
                 /\ Becomes(q, "fail", publisher[q].todo, publisher[q].post)
           /\ UNCHANGED <<campaign, live, midway, overlapped>> /\ SameBudget
  <1>1. "campaign" \in Working /\ "fail" \in Working /\ "published" \in PostStatus
    BY DEF Working, PostStatus, CampaignStatus
  <1>. QED BY <1>1, GoingOn, PostPutDown, StatusAndIdSet DEF RecordPublished, Smooth, SameBudget

LEMMA RecordUploadedStep ==
    ASSUME StudioTypeOK, NEW q \in Publishers, NEW p \in Posts, RecordUploaded(q, p)
    PROVE  /\ PublisherAt(q, "posted") /\ InHand(q, p) /\ ~IsRun(q) /\ p \in TikTokPosts
           /\ \/ /\ UNCHANGED <<campaign, post>>
                 /\ Becomes(q, "fail", publisher[q].todo, publisher[q].post)
              \/ /\ campaign' = [campaign EXCEPT ![CampaignOf[p]] = "partially_published"]
                 /\ Rests(q)
                 /\ \/ UNCHANGED post
                    \/ Gate(p) /\ PostBecomes(p, "uploaded_draft", post[p].approved)
           /\ UNCHANGED <<live, midway, overlapped>> /\ SameBudget
  <1>1. "fail" \in Working /\ "uploaded_draft" \in PostStatus
    BY DEF Working, PostStatus
  <1>2. CASE post[p].status = "publishing" /\ ~Gate(p)
    BY <1>1, <1>2, GoingOn DEF RecordUploaded, Smooth, SameBudget
  <1>3. CASE post[p].status # "publishing"
    <2>1. UNCHANGED post
      BY <1>3, StudioRows DEF RecordUploaded
    <2>. QED BY <1>3, <2>1, GoingToRest DEF RecordUploaded, Smooth, SameBudget
  <1>4. CASE post[p].status = "publishing" /\ Gate(p)
    <2>1. post' = [post EXCEPT ![p].status = "uploaded_draft", ![p].stored = TRUE]
      BY <1>4, StudioRows DEF RecordUploaded, PostRow
    <2>. QED BY <1>1, <1>4, <2>1, StatusAndIdSet, GoingToRest DEF RecordUploaded, Smooth, SameBudget
  <1>. QED BY <1>2, <1>3, <1>4

LEMMA RecordFailedStep ==
    ASSUME StudioTypeOK, NEW q \in Publishers, NEW p \in Posts, RecordFailed(q, p)
    PROVE  /\ PublisherAt(q, "fail") /\ InHand(q, p)
           /\ PostBecomes(p, "failed", post[p].approved)
           /\ \/ IsRun(q) /\ Becomes(q, "next", publisher[q].todo, {})
              \/ ~IsRun(q) /\ Becomes(q, "campaign failed", publisher[q].todo, publisher[q].post)
           /\ UNCHANGED <<campaign, live, midway, overlapped>> /\ SameBudget
  <1>1. "campaign failed" \in Working /\ "failed" \in PostStatus
    BY DEF Working, PostStatus, CampaignStatus
  <1>. QED BY <1>1, GoingOn, PostPutDown, StatusSet DEF RecordFailed, FailedPost, Smooth, SameBudget

LEMMA SetCampaignStep ==
    ASSUME StudioTypeOK, NEW q \in Publishers, NEW p \in Posts, SetCampaign(q, p)
    PROVE  /\ publisher[q].at \in {"campaign", "campaign failed"} /\ ~IsRun(q) /\ InHand(q, p)
           /\ \E s \in {"partially_published", "failed"} :
                 \/ campaign' = [campaign EXCEPT ![CampaignOf[p]] = s]
                 \/ UNCHANGED campaign
           /\ Rests(q)
           /\ UNCHANGED <<post, live, midway, overlapped>> /\ SameBudget
  <1>1. PublisherAt(q, "campaign failed") =>
           \/ campaign' = [campaign EXCEPT ![CampaignOf[p]] = "failed"]
           \/ UNCHANGED campaign
    BY CampaignsAssumption DEF SetCampaign, StudioTypeOK, PublisherAt
  <1>. QED BY <1>1, GoingToRest DEF SetCampaign, PublisherAt, Smooth, SameBudget

LEMMA StatementThrowsStep ==
    ASSUME StudioTypeOK, NEW q \in Publishers, StatementThrows(q)
    PROVE  /\ publisher[q].at \in {"posted", "campaign"}
           /\ Becomes(q, "fail", publisher[q].todo, publisher[q].post)
           /\ slips' = slips + 1 /\ stops' = stops
           /\ UNCHANGED <<campaign, post, live, midway, overlapped>>
  <1>1. "fail" \in Working BY DEF Working
  <1>. QED BY <1>1, GoingOn DEF StatementThrows, Slip

LEMMA PublisherEndsStep ==
    ASSUME StudioTypeOK, NEW q \in Publishers, PublisherEnds(q)
    PROVE  /\ Rests(q) /\ slips' = slips /\ stops' = stops + 1
           /\ UNCHANGED <<campaign, post, live, midway, overlapped>>
BY GoingToRest DEF PublisherEnds, StopHere

-----------------------------------------------------------------------------
(* The steps of the review                                                   *)

ApprovalOf(c) ==
    /\ post' \in [Posts -> PostRow]
    /\ \A p \in Posts : \/ post'[p] = post[p]
                        \/ /\ CampaignOf[p] = c /\ post[p].status \in {"pending_review", "failed"}
                           /\ post'[p].status = "approved" /\ post'[p].approved

LEMMA ApproveStep ==
    ASSUME StudioTypeOK, NEW c \in Campaigns, ApproveCampaign(c)
    PROVE  /\ campaign[c] \in Unsettled /\ campaign' = [campaign EXCEPT ![c] = "approved"]
           /\ ApprovalOf(c)
           /\ UNCHANGED <<live, midway, publisher, overlapped>> /\ SameBudget
  <1>1. ASSUME NEW p \in Posts
        PROVE  [post[p] EXCEPT !.status = "approved", !.approved = TRUE] \in PostRow
    BY StudioRows DEF PostRow, PostStatus, CampaignStatus
  <1>2. post' \in [Posts -> PostRow]
    BY <1>1, StudioRows DEF ApproveCampaign
  <1>. QED BY <1>2, StudioRows DEF ApproveCampaign, ApprovalOf, PostsOf, PostRow, Smooth, SameBudget

LEMMA RejectPostsStep ==
    ASSUME StudioTypeOK, NEW c \in Campaigns, RejectPosts(c)
    PROVE  /\ post' \in [Posts -> PostRow]
           /\ \A p \in Posts : \/ post'[p] = post[p]
                               \/ post[p].status = "pending_review" /\ post'[p].status = "rejected"
           /\ rejecting' \subseteq rejecting /\ slips' = slips /\ stops' \in {stops, stops + 1}
           /\ slips + stops < MaxSlips \/ stops' = stops
           /\ UNCHANGED <<campaign, live, refreshing, publisher, overlapped>>
  <1>1. ASSUME NEW p \in Posts
        PROVE  [post[p] EXCEPT !.status = "rejected"] \in PostRow
    BY StudioRows DEF PostRow, PostStatus, CampaignStatus
  <1>2. post' \in [Posts -> PostRow]
    BY <1>1, StudioRows DEF RejectPosts
  <1>. QED BY <1>2, StudioRows DEF RejectPosts, PostRow, Smooth, StopHere

LEMMA EditStep ==
    ASSUME StudioTypeOK, NEW p \in Posts, EditPost(p)
    PROVE  /\ post[p].status \in Editable /\ PostBecomes(p, "pending_review", FALSE)
           /\ UNCHANGED <<campaign, live, midway, publisher, overlapped>> /\ SameBudget
  <1>1. Withdrawn(p) \in PostRow
    BY DEF Withdrawn, PostRow, PostStatus, CampaignStatus
  <1>. QED BY <1>1, StudioRows DEF EditPost, Withdrawn, PostBecomes, Smooth, SameBudget

LEMMA SaveStatusStep ==
    ASSUME StudioTypeOK, NEW p \in Posts, SaveStatus(p)
    PROVE  /\ p \in refreshing /\ refreshing' = refreshing \ {p}
           /\ \/ UNCHANGED post
              \/ \E s \in PostStatus : /\ s \in Gated => Gate(p)
                                       /\ PostBecomes(p, s, post[p].approved)
           /\ UNCHANGED <<campaign, live, rejecting, publisher, overlapped>> /\ SameBudget
  <1>1. Gated \cup {"failed"} \subseteq PostStatus
    BY DEF Gated, PostStatus, CampaignStatus
  <1>2. ASSUME NEW s \in Gated \cup {"failed"}, s \in Gated => Gate(p),
               post' = [post EXCEPT ![p].status = s]
        PROVE  s \in PostStatus /\ PostBecomes(p, s, post[p].approved)
    BY <1>1, <1>2, StatusSet
  <1>. QED BY <1>2 DEF SaveStatus, Smooth, SameBudget

-----------------------------------------------------------------------------
(* Every step preserves the invariant                                        *)

LEMMA NewRecords ==
    /\ RecordOK(Resting)
    /\ \A p \in Posts : RecordOK(Starting("send", "request", {}, {p}))
    /\ \A c \in Campaigns : RecordOK(Starting("read", "run", {c}, {}))
BY DEF RecordOK, Resting, Starting, PostSteps

LEMMA PublishersTyped ==
    ASSUME StudioInv, StudioNext
    PROVE  PublisherOK'
  <1>0. StudioTypeOK /\ PublisherOK
    BY DEF StudioInv
  <1>1. ASSUME NEW c \in Campaigns, ApproveCampaign(c)
        PROVE  PublisherOK'
    BY <1>0, <1>1, ApproveStep DEF PublisherOK
  <1>2. ASSUME NEW c \in Campaigns, RejectCampaign(c)
        PROVE  PublisherOK'
    BY <1>0, <1>2 DEF PublisherOK, RejectCampaign, Unreviewed, Smooth
  <1>3. ASSUME NEW c \in Campaigns, RejectPosts(c)
        PROVE  PublisherOK'
    BY <1>0, <1>3, RejectPostsStep DEF PublisherOK
  <1>4. ASSUME NEW p \in Posts, EditPost(p)
        PROVE  PublisherOK'
    BY <1>0, <1>4, EditStep DEF PublisherOK
  <1>5. ASSUME NEW p \in Posts, ReadForStatus(p)
        PROVE  PublisherOK'
    BY <1>0, <1>5 DEF PublisherOK, ReadForStatus, Smooth
  <1>6. ASSUME NEW p \in Posts, SaveStatus(p)
        PROVE  PublisherOK'
    BY <1>0, <1>6, SaveStatusStep DEF PublisherOK
  <1>7. ASSUME NEW q \in Publishers, NEW p \in Posts, ClaimPost(q, p)
        PROVE  PublisherOK'
    <2>2. RecordOK(publisher'[q]) /\ OthersWait(q)
      BY <1>0, <1>7, NewRecords, ClaimStep
    <2>. QED BY <1>0, <2>2 DEF PublisherOK, OthersWait
  <1>8. ASSUME NEW q \in Publishers, NEW c \in Campaigns, ReadCampaign(q, c)
        PROVE  PublisherOK'
    <2>2. RecordOK(publisher'[q]) /\ OthersWait(q)
      BY <1>0, <1>8, NewRecords, ReadCampaignStep
    <2>. QED BY <1>0, <2>2 DEF PublisherOK, OthersWait
  <1>9. ASSUME NEW q \in Publishers, NEW c \in Campaigns, ReadPosts(q, c)
        PROVE  PublisherOK'
    <2>1. RecordOK(publisher[q])
      BY <1>0 DEF PublisherOK
    <2>2. CASE Becomes(q, "mark", ApprovedPosts(c), publisher[q].post)
      <3>1. /\ publisher[q].role = "run" /\ publisher[q].post = {} /\ publisher[q].campaign = {c}
            /\ ApprovedPosts(c) \subseteq PostsOf(c)
        BY <1>0, <1>9, <2>1, ReadPostsStep DEF RecordOK, PublisherAt, ApprovedPosts
      <3>2. RecordOK(publisher'[q])
        BY <2>2, <3>1 DEF RecordOK, Becomes, PostSteps
      <3>. QED BY <1>0, <2>2, <3>2 DEF PublisherOK, Becomes, OthersWait
    <2>3. CASE Rests(q)
      BY <1>0, <2>3, NewRecords DEF Rests, PublisherOK, OthersWait
    <2>. QED BY <1>0, <1>9, <2>2, <2>3, ReadPostsStep
  <1>10. ASSUME NEW q \in Publishers, NEW c \in Campaigns, MarkCampaign(q, c)
        PROVE  PublisherOK'
    <2>1. RecordOK(publisher[q])
      BY <1>0 DEF PublisherOK
    <2>2. RecordOK(publisher'[q]) /\ OthersWait(q)
      BY <1>0, <1>10, <2>1, MarkCampaignStep DEF RecordOK, PostSteps, PublisherAt, IsRun, InHand, Becomes
    <2>. QED BY <1>0, <2>2 DEF PublisherOK, OthersWait
  <1>11. ASSUME NEW q \in Publishers, NEW c \in Campaigns, FinishCampaign(q, c)
        PROVE  PublisherOK'
    <2>2. RecordOK(publisher'[q]) /\ OthersWait(q)
      BY <1>0, <1>11, NewRecords, FinishCampaignStep DEF Rests
    <2>. QED BY <1>0, <2>2 DEF PublisherOK, OthersWait
  <1>12. ASSUME NEW q \in Publishers, NEW p \in Posts, StartPost(q, p)
        PROVE  PublisherOK'
    <2>1. RecordOK(publisher[q])
      BY <1>0 DEF PublisherOK
    <2>2. /\ publisher[q].role = "run" /\ p \in publisher[q].todo
          /\ Becomes(q, IF Gate(p) THEN "send" ELSE "fail", publisher[q].todo \ {p}, {p})
      BY <1>0, <1>12, <2>1, StartPostStep DEF RecordOK, PublisherAt
    <2>3. PICK c \in Campaigns : /\ publisher[q].campaign = {c}
                                 /\ publisher[q].todo \cup publisher[q].post \subseteq PostsOf(c)
      BY <2>1, <2>2 DEF RecordOK
    <2>4. RecordOK(publisher'[q])
      BY <2>2, <2>3 DEF RecordOK, Becomes, PostSteps
    <2>. QED BY <1>0, <2>2, <2>4 DEF PublisherOK, OthersWait, Becomes
  <1>13. ASSUME NEW q \in Publishers, NEW p \in Posts, Send(q, p)
        PROVE  PublisherOK'
    <2>1. RecordOK(publisher[q])
      BY <1>0 DEF PublisherOK
    <2>2. RecordOK(publisher'[q]) /\ OthersWait(q)
      BY <1>0, <1>13, <2>1, SendStep DEF RecordOK, PostSteps, PublisherAt, IsRun, InHand, Becomes
    <2>. QED BY <1>0, <2>2 DEF PublisherOK, OthersWait
  <1>14. ASSUME NEW q \in Publishers, NEW p \in Posts, RecordPublished(q, p)
        PROVE  PublisherOK'
    <2>1. RecordOK(publisher[q])
      BY <1>0 DEF PublisherOK
    <2>2. RecordOK(publisher'[q]) /\ OthersWait(q)
      BY <1>0, <1>14, <2>1, RecordPublishedStep DEF RecordOK, PostSteps, PublisherAt, IsRun, InHand, Becomes
    <2>. QED BY <1>0, <2>2 DEF PublisherOK, OthersWait
  <1>15. ASSUME NEW q \in Publishers, NEW p \in Posts, RecordUploaded(q, p)
        PROVE  PublisherOK'
    <2>1. RecordOK(publisher[q])
      BY <1>0 DEF PublisherOK
    <2>2. CASE Becomes(q, "fail", publisher[q].todo, publisher[q].post)
      <3>1. RecordOK(publisher'[q])
        BY <1>0, <1>15, <2>1, <2>2, RecordUploadedStep DEF RecordOK, Becomes, PostSteps, PublisherAt
      <3>. QED BY <1>0, <2>2, <3>1 DEF PublisherOK, Becomes, OthersWait
    <2>3. CASE Rests(q)
      BY <1>0, <2>3, NewRecords DEF Rests, PublisherOK, OthersWait
    <2>. QED BY <1>0, <1>15, <2>2, <2>3, RecordUploadedStep
  <1>16. ASSUME NEW q \in Publishers, NEW p \in Posts, RecordFailed(q, p)
        PROVE  PublisherOK'
    <2>1. RecordOK(publisher[q])
      BY <1>0 DEF PublisherOK
    <2>2. RecordOK(publisher'[q]) /\ OthersWait(q)
      BY <1>0, <1>16, <2>1, RecordFailedStep DEF RecordOK, PostSteps, PublisherAt, IsRun, InHand, Becomes
    <2>. QED BY <1>0, <2>2 DEF PublisherOK, OthersWait
  <1>17. ASSUME NEW q \in Publishers, NEW p \in Posts, SetCampaign(q, p)
        PROVE  PublisherOK'
    <2>2. RecordOK(publisher'[q]) /\ OthersWait(q)
      BY <1>0, <1>17, NewRecords, SetCampaignStep DEF Rests
    <2>. QED BY <1>0, <2>2 DEF PublisherOK, OthersWait
  <1>18. ASSUME NEW q \in Publishers, StatementThrows(q)
        PROVE  PublisherOK'
    <2>1. RecordOK(publisher[q])
      BY <1>0 DEF PublisherOK
    <2>2. RecordOK(publisher'[q]) /\ OthersWait(q)
      BY <1>0, <1>18, <2>1, StatementThrowsStep DEF RecordOK, PostSteps, PublisherAt, IsRun, InHand, Becomes
    <2>. QED BY <1>0, <2>2 DEF PublisherOK, OthersWait
  <1>19. ASSUME NEW q \in Publishers, PublisherEnds(q)
        PROVE  PublisherOK'
    <2>2. RecordOK(publisher'[q]) /\ OthersWait(q)
      BY <1>0, <1>19, NewRecords, PublisherEndsStep DEF Rests
    <2>. QED BY <1>0, <2>2 DEF PublisherOK, OthersWait
  <1>. QED BY <1>1, <1>2, <1>3, <1>4, <1>5, <1>6, <1>7, <1>8, <1>9, <1>10, <1>11, <1>12, <1>13, <1>14, <1>15, <1>16, <1>17, <1>18, <1>19 DEF StudioNext, PublisherStep

LEMMA ReviewIsFinal ==
    ASSUME StudioInv, StudioNext
    PROVE  \A k \in Campaigns : Fresh(k)' => Fresh(k)
  <1>. USE DEF Fresh, StudioTypeOK, CampaignStatus, Unsettled, OpenToPublish
  <1>0. StudioTypeOK
    BY DEF StudioInv
  <1>1. ASSUME NEW c \in Campaigns, ApproveCampaign(c)
        PROVE  \A k \in Campaigns : Fresh(k)' => Fresh(k)
    BY <1>0, <1>1, ApproveStep
  <1>2. ASSUME NEW c \in Campaigns, RejectCampaign(c)
        PROVE  \A k \in Campaigns : Fresh(k)' => Fresh(k)
    BY <1>0, <1>2 DEF RejectCampaign, Unreviewed, Smooth
  <1>3. ASSUME NEW c \in Campaigns, RejectPosts(c)
        PROVE  \A k \in Campaigns : Fresh(k)' => Fresh(k)
    BY <1>0, <1>3, RejectPostsStep
  <1>4. ASSUME NEW p \in Posts, EditPost(p)
        PROVE  \A k \in Campaigns : Fresh(k)' => Fresh(k)
    BY <1>0, <1>4, EditStep
  <1>5. ASSUME NEW p \in Posts, ReadForStatus(p)
        PROVE  \A k \in Campaigns : Fresh(k)' => Fresh(k)
    BY <1>0, <1>5 DEF ReadForStatus, Smooth
  <1>6. ASSUME NEW p \in Posts, SaveStatus(p)
        PROVE  \A k \in Campaigns : Fresh(k)' => Fresh(k)
    BY <1>0, <1>6, SaveStatusStep
  <1>7. ASSUME NEW q \in Publishers, NEW p \in Posts, ClaimPost(q, p)
        PROVE  \A k \in Campaigns : Fresh(k)' => Fresh(k)
    <2>1. /\ campaign' = [campaign EXCEPT ![CampaignOf[p]] = "approved"]
          /\ CampaignOf[p] \in Campaigns
      BY <1>0, <1>7, ClaimStep, CampaignsAssumption
    <2>. QED BY <1>0, <2>1
  <1>8. ASSUME NEW q \in Publishers, NEW c \in Campaigns, ReadCampaign(q, c)
        PROVE  \A k \in Campaigns : Fresh(k)' => Fresh(k)
    BY <1>0, <1>8, ReadCampaignStep
  <1>9. ASSUME NEW q \in Publishers, NEW c \in Campaigns, ReadPosts(q, c)
        PROVE  \A k \in Campaigns : Fresh(k)' => Fresh(k)
    BY <1>0, <1>9, ReadPostsStep
  <1>10. ASSUME NEW q \in Publishers, NEW c \in Campaigns, MarkCampaign(q, c)
        PROVE  \A k \in Campaigns : Fresh(k)' => Fresh(k)
    BY <1>0, <1>10, MarkCampaignStep
  <1>11. ASSUME NEW q \in Publishers, NEW c \in Campaigns, FinishCampaign(q, c)
        PROVE  \A k \in Campaigns : Fresh(k)' => Fresh(k)
    BY <1>0, <1>11, FinishCampaignStep
  <1>12. ASSUME NEW q \in Publishers, NEW p \in Posts, StartPost(q, p)
        PROVE  \A k \in Campaigns : Fresh(k)' => Fresh(k)
    BY <1>0, <1>12, StartPostStep
  <1>13. ASSUME NEW q \in Publishers, NEW p \in Posts, Send(q, p)
        PROVE  \A k \in Campaigns : Fresh(k)' => Fresh(k)
    BY <1>0, <1>13, SendStep
  <1>14. ASSUME NEW q \in Publishers, NEW p \in Posts, RecordPublished(q, p)
        PROVE  \A k \in Campaigns : Fresh(k)' => Fresh(k)
    BY <1>0, <1>14, RecordPublishedStep
  <1>15. ASSUME NEW q \in Publishers, NEW p \in Posts, RecordUploaded(q, p)
        PROVE  \A k \in Campaigns : Fresh(k)' => Fresh(k)
    BY <1>0, <1>15, RecordUploadedStep
  <1>16. ASSUME NEW q \in Publishers, NEW p \in Posts, RecordFailed(q, p)
        PROVE  \A k \in Campaigns : Fresh(k)' => Fresh(k)
    BY <1>0, <1>16, RecordFailedStep
  <1>17. ASSUME NEW q \in Publishers, NEW p \in Posts, SetCampaign(q, p)
        PROVE  \A k \in Campaigns : Fresh(k)' => Fresh(k)
    BY <1>0, <1>17, SetCampaignStep
  <1>18. ASSUME NEW q \in Publishers, StatementThrows(q)
        PROVE  \A k \in Campaigns : Fresh(k)' => Fresh(k)
    BY <1>0, <1>18, StatementThrowsStep
  <1>19. ASSUME NEW q \in Publishers, PublisherEnds(q)
        PROVE  \A k \in Campaigns : Fresh(k)' => Fresh(k)
    BY <1>0, <1>19, PublisherEndsStep
  <1>. QED BY <1>1, <1>2, <1>3, <1>4, <1>5, <1>6, <1>7, <1>8, <1>9, <1>10, <1>11, <1>12, <1>13, <1>14, <1>15, <1>16, <1>17, <1>18, <1>19 DEF StudioNext, PublisherStep

LEMMA StudioTyped ==
    ASSUME StudioInv, StudioNext
    PROVE  StudioTypeOK'
  <1>. USE DEF StudioTypeOK, Becomes, Rests, PostBecomes, ApprovalOf, SameBudget, CampaignStatus
  <1>0. StudioTypeOK
    BY DEF StudioInv
  <1>1. ASSUME NEW c \in Campaigns, ApproveCampaign(c)
        PROVE  StudioTypeOK'
    BY <1>0, <1>1, ApproveStep, CampaignsAssumption, SlipsAssumption
  <1>2. ASSUME NEW c \in Campaigns, RejectCampaign(c)
        PROVE  StudioTypeOK'
    BY <1>0, <1>2, CampaignsAssumption, SlipsAssumption DEF RejectCampaign, Unreviewed, Smooth
  <1>3. ASSUME NEW c \in Campaigns, RejectPosts(c)
        PROVE  StudioTypeOK'
    BY <1>0, <1>3, RejectPostsStep, CampaignsAssumption, SlipsAssumption
  <1>4. ASSUME NEW p \in Posts, EditPost(p)
        PROVE  StudioTypeOK'
    BY <1>0, <1>4, EditStep, CampaignsAssumption, SlipsAssumption
  <1>5. ASSUME NEW p \in Posts, ReadForStatus(p)
        PROVE  StudioTypeOK'
    BY <1>0, <1>5, CampaignsAssumption, SlipsAssumption DEF ReadForStatus, Smooth
  <1>6. ASSUME NEW p \in Posts, SaveStatus(p)
        PROVE  StudioTypeOK'
    BY <1>0, <1>6, SaveStatusStep, CampaignsAssumption, SlipsAssumption
  <1>7. ASSUME NEW q \in Publishers, NEW p \in Posts, ClaimPost(q, p)
        PROVE  StudioTypeOK'
    <2>1. /\ publisher' \in [Publishers -> PublisherRow] /\ post' \in [Posts -> PostRow]
          /\ campaign' = [campaign EXCEPT ![CampaignOf[p]] = "approved"]
          /\ UNCHANGED <<live, midway>> /\ SameBudget
      BY <1>0, <1>7, ClaimStep
    <2>2. overlapped' \in BOOLEAN
      BY <1>0, <1>7, ClaimStep
    <2>. QED BY <1>0, <2>1, <2>2
  <1>8. ASSUME NEW q \in Publishers, NEW c \in Campaigns, ReadCampaign(q, c)
        PROVE  StudioTypeOK'
    BY <1>0, <1>8, ReadCampaignStep, CampaignsAssumption, SlipsAssumption
  <1>9. ASSUME NEW q \in Publishers, NEW c \in Campaigns, ReadPosts(q, c)
        PROVE  StudioTypeOK'
    BY <1>0, <1>9, ReadPostsStep, CampaignsAssumption, SlipsAssumption
  <1>10. ASSUME NEW q \in Publishers, NEW c \in Campaigns, MarkCampaign(q, c)
        PROVE  StudioTypeOK'
    BY <1>0, <1>10, MarkCampaignStep, CampaignsAssumption, SlipsAssumption
  <1>11. ASSUME NEW q \in Publishers, NEW c \in Campaigns, FinishCampaign(q, c)
        PROVE  StudioTypeOK'
    BY <1>0, <1>11, FinishCampaignStep, CampaignsAssumption, SlipsAssumption
  <1>12. ASSUME NEW q \in Publishers, NEW p \in Posts, StartPost(q, p)
        PROVE  StudioTypeOK'
    BY <1>0, <1>12, StartPostStep, CampaignsAssumption, SlipsAssumption
  <1>13. ASSUME NEW q \in Publishers, NEW p \in Posts, Send(q, p)
        PROVE  StudioTypeOK'
    BY <1>0, <1>13, SendStep, CampaignsAssumption, SlipsAssumption
  <1>14. ASSUME NEW q \in Publishers, NEW p \in Posts, RecordPublished(q, p)
        PROVE  StudioTypeOK'
    BY <1>0, <1>14, RecordPublishedStep, CampaignsAssumption, SlipsAssumption
  <1>15. ASSUME NEW q \in Publishers, NEW p \in Posts, RecordUploaded(q, p)
        PROVE  StudioTypeOK'
    BY <1>0, <1>15, RecordUploadedStep, CampaignsAssumption, SlipsAssumption
  <1>16. ASSUME NEW q \in Publishers, NEW p \in Posts, RecordFailed(q, p)
        PROVE  StudioTypeOK'
    BY <1>0, <1>16, RecordFailedStep, CampaignsAssumption, SlipsAssumption
  <1>17. ASSUME NEW q \in Publishers, NEW p \in Posts, SetCampaign(q, p)
        PROVE  StudioTypeOK'
    BY <1>0, <1>17, SetCampaignStep, CampaignsAssumption, SlipsAssumption
  <1>18. ASSUME NEW q \in Publishers, StatementThrows(q)
        PROVE  StudioTypeOK'
    BY <1>0, <1>18, StatementThrowsStep, CampaignsAssumption, SlipsAssumption
  <1>19. ASSUME NEW q \in Publishers, PublisherEnds(q)
        PROVE  StudioTypeOK'
    BY <1>0, <1>19, PublisherEndsStep, CampaignsAssumption, SlipsAssumption
  <1>. QED BY <1>1, <1>2, <1>3, <1>4, <1>5, <1>6, <1>7, <1>8, <1>9, <1>10, <1>11, <1>12, <1>13, <1>14, <1>15, <1>16, <1>17, <1>18, <1>19 DEF StudioNext, PublisherStep

LEMMA RefreshingTyped ==
    ASSUME StudioInv, StudioNext
    PROVE  RefreshingOK'
  <1>. USE DEF RefreshingOK, midway
  <1>0. StudioTypeOK /\ RefreshingOK
    BY DEF StudioInv
  <1>1. ASSUME NEW c \in Campaigns, ApproveCampaign(c)
        PROVE  RefreshingOK'
    BY <1>0, <1>1, ApproveStep
  <1>2. ASSUME NEW c \in Campaigns, RejectCampaign(c)
        PROVE  RefreshingOK'
    BY <1>0, <1>2 DEF RejectCampaign, Unreviewed, Smooth
  <1>3. ASSUME NEW c \in Campaigns, RejectPosts(c)
        PROVE  RefreshingOK'
    BY <1>0, <1>3, RejectPostsStep
  <1>4. ASSUME NEW p \in Posts, EditPost(p)
        PROVE  RefreshingOK'
    BY <1>0, <1>4, EditStep
  <1>5. ASSUME NEW p \in Posts, ReadForStatus(p)
        PROVE  RefreshingOK'
    BY <1>0, <1>5 DEF ReadForStatus, Smooth
  <1>6. ASSUME NEW p \in Posts, SaveStatus(p)
        PROVE  RefreshingOK'
    BY <1>0, <1>6, SaveStatusStep
  <1>7. ASSUME NEW q \in Publishers, NEW p \in Posts, ClaimPost(q, p)
        PROVE  RefreshingOK'
    BY <1>0, <1>7, ClaimStep
  <1>8. ASSUME NEW q \in Publishers, NEW c \in Campaigns, ReadCampaign(q, c)
        PROVE  RefreshingOK'
    BY <1>0, <1>8, ReadCampaignStep
  <1>9. ASSUME NEW q \in Publishers, NEW c \in Campaigns, ReadPosts(q, c)
        PROVE  RefreshingOK'
    BY <1>0, <1>9, ReadPostsStep
  <1>10. ASSUME NEW q \in Publishers, NEW c \in Campaigns, MarkCampaign(q, c)
        PROVE  RefreshingOK'
    BY <1>0, <1>10, MarkCampaignStep
  <1>11. ASSUME NEW q \in Publishers, NEW c \in Campaigns, FinishCampaign(q, c)
        PROVE  RefreshingOK'
    BY <1>0, <1>11, FinishCampaignStep
  <1>12. ASSUME NEW q \in Publishers, NEW p \in Posts, StartPost(q, p)
        PROVE  RefreshingOK'
    BY <1>0, <1>12, StartPostStep
  <1>13. ASSUME NEW q \in Publishers, NEW p \in Posts, Send(q, p)
        PROVE  RefreshingOK'
    BY <1>0, <1>13, SendStep
  <1>14. ASSUME NEW q \in Publishers, NEW p \in Posts, RecordPublished(q, p)
        PROVE  RefreshingOK'
    BY <1>0, <1>14, RecordPublishedStep
  <1>15. ASSUME NEW q \in Publishers, NEW p \in Posts, RecordUploaded(q, p)
        PROVE  RefreshingOK'
    BY <1>0, <1>15, RecordUploadedStep
  <1>16. ASSUME NEW q \in Publishers, NEW p \in Posts, RecordFailed(q, p)
        PROVE  RefreshingOK'
    BY <1>0, <1>16, RecordFailedStep
  <1>17. ASSUME NEW q \in Publishers, NEW p \in Posts, SetCampaign(q, p)
        PROVE  RefreshingOK'
    BY <1>0, <1>17, SetCampaignStep
  <1>18. ASSUME NEW q \in Publishers, StatementThrows(q)
        PROVE  RefreshingOK'
    BY <1>0, <1>18, StatementThrowsStep
  <1>19. ASSUME NEW q \in Publishers, PublisherEnds(q)
        PROVE  RefreshingOK'
    BY <1>0, <1>19, PublisherEndsStep
  <1>. QED BY <1>1, <1>2, <1>3, <1>4, <1>5, <1>6, <1>7, <1>8, <1>9, <1>10, <1>11, <1>12, <1>13, <1>14, <1>15, <1>16, <1>17, <1>18, <1>19 DEF StudioNext, PublisherStep

LEMMA StaysApproved ==
    ASSUME StudioInv, StudioNext
    PROVE  PublishedIsApproved'
  <1>. USE DEF PublishedIsApproved, PostBecomes, ApprovalOf, SameBudget, Gated, Gate, Editable
  <1>0. StudioTypeOK /\ RefreshingOK /\ PublishedIsApproved
    BY DEF StudioInv
  <1>1. ASSUME NEW c \in Campaigns, ApproveCampaign(c)
        PROVE  PublishedIsApproved'
    BY <1>0, <1>1, ApproveStep
  <1>2. ASSUME NEW c \in Campaigns, RejectCampaign(c)
        PROVE  PublishedIsApproved'
    BY <1>0, <1>2 DEF RejectCampaign, Unreviewed, Smooth
  <1>3. ASSUME NEW c \in Campaigns, RejectPosts(c)
        PROVE  PublishedIsApproved'
    BY <1>0, <1>3, RejectPostsStep
  <1>4. ASSUME NEW p \in Posts, EditPost(p)
        PROVE  PublishedIsApproved'
    BY <1>0, <1>4, EditStep
  <1>5. ASSUME NEW p \in Posts, ReadForStatus(p)
        PROVE  PublishedIsApproved'
    BY <1>0, <1>5 DEF ReadForStatus, Smooth
  <1>6. ASSUME NEW p \in Posts, SaveStatus(p)
        PROVE  PublishedIsApproved'
    BY <1>0, <1>6, SaveStatusStep
  <1>7. ASSUME NEW q \in Publishers, NEW p \in Posts, ClaimPost(q, p)
        PROVE  PublishedIsApproved'
    BY <1>0, <1>7, ClaimStep
  <1>8. ASSUME NEW q \in Publishers, NEW c \in Campaigns, ReadCampaign(q, c)
        PROVE  PublishedIsApproved'
    BY <1>0, <1>8, ReadCampaignStep
  <1>9. ASSUME NEW q \in Publishers, NEW c \in Campaigns, ReadPosts(q, c)
        PROVE  PublishedIsApproved'
    BY <1>0, <1>9, ReadPostsStep
  <1>10. ASSUME NEW q \in Publishers, NEW c \in Campaigns, MarkCampaign(q, c)
        PROVE  PublishedIsApproved'
    BY <1>0, <1>10, MarkCampaignStep
  <1>11. ASSUME NEW q \in Publishers, NEW c \in Campaigns, FinishCampaign(q, c)
        PROVE  PublishedIsApproved'
    BY <1>0, <1>11, FinishCampaignStep
  <1>12. ASSUME NEW q \in Publishers, NEW p \in Posts, StartPost(q, p)
        PROVE  PublishedIsApproved'
    BY <1>0, <1>12, StartPostStep
  <1>13. ASSUME NEW q \in Publishers, NEW p \in Posts, Send(q, p)
        PROVE  PublishedIsApproved'
    BY <1>0, <1>13, SendStep
  <1>14. ASSUME NEW q \in Publishers, NEW p \in Posts, RecordPublished(q, p)
        PROVE  PublishedIsApproved'
    BY <1>0, <1>14, RecordPublishedStep
  <1>15. ASSUME NEW q \in Publishers, NEW p \in Posts, RecordUploaded(q, p)
        PROVE  PublishedIsApproved'
    BY <1>0, <1>15, RecordUploadedStep
  <1>16. ASSUME NEW q \in Publishers, NEW p \in Posts, RecordFailed(q, p)
        PROVE  PublishedIsApproved'
    BY <1>0, <1>16, RecordFailedStep
  <1>17. ASSUME NEW q \in Publishers, NEW p \in Posts, SetCampaign(q, p)
        PROVE  PublishedIsApproved'
    BY <1>0, <1>17, SetCampaignStep
  <1>18. ASSUME NEW q \in Publishers, StatementThrows(q)
        PROVE  PublishedIsApproved'
    BY <1>0, <1>18, StatementThrowsStep
  <1>19. ASSUME NEW q \in Publishers, PublisherEnds(q)
        PROVE  PublishedIsApproved'
    BY <1>0, <1>19, PublisherEndsStep
  <1>. QED BY <1>1, <1>2, <1>3, <1>4, <1>5, <1>6, <1>7, <1>8, <1>9, <1>10, <1>11, <1>12, <1>13, <1>14, <1>15, <1>16, <1>17, <1>18, <1>19 DEF StudioNext, PublisherStep

LEMMA StaysUntouched ==
    ASSUME StudioInv, StudioNext
    PROVE  Untouched'
  <1>0. StudioTypeOK /\ PublisherOK /\ Untouched
    BY DEF StudioInv
  <1>1. SUFFICES ASSUME NEW k \in Campaigns, Fresh(k)'
                 PROVE  Cold(k)'
    BY DEF Untouched
  <1>2. Fresh(k) /\ Cold(k)
    BY <1>0, <1>1, ReviewIsFinal DEF Untouched
  <1>3. PostsOf(k) \subseteq Posts /\ \A p \in Posts : p \in PostsOf(k) <=> CampaignOf[p] = k
    BY DEF PostsOf
  <1>4. ASSUME UNCHANGED <<live, publisher>>
        PROVE  Cold(k)'
    BY <1>2, <1>4 DEF Cold
  <1>5. ASSUME NEW q \in Publishers, UNCHANGED live, OthersWait(q), Spared(publisher'[q], k)
        PROVE  Cold(k)'
    BY <1>2, <1>5 DEF Cold, OthersWait
  <1>6. ASSUME NEW q \in Publishers, Rests(q), UNCHANGED live
        PROVE  Cold(k)'
    <2>1. Spared(publisher'[q], k)
      BY <1>6 DEF Rests, Spared, Resting, Starting
    <2>. QED BY <1>5, <1>6, <2>1 DEF Rests
  <1>7. ASSUME NEW q \in Publishers, NEW at, NEW todo, NEW hand, Becomes(q, at, todo, hand),
               UNCHANGED live, hand \in {{}, publisher[q].post}
        PROVE  Cold(k)'
    <2>1. Spared(publisher[q], k)
      BY <1>2 DEF Cold
    <2>2. Spared(publisher'[q], k)
      BY <1>7, <2>1 DEF Becomes, Spared
    <2>. QED BY <1>5, <1>7, <2>2 DEF Becomes
  <1>8. CASE \E c \in Campaigns : ApproveCampaign(c) \/ RejectCampaign(c) \/ RejectPosts(c)
    BY <1>4, <1>8 DEF ApproveCampaign, RejectCampaign, RejectPosts
  <1>9. CASE \E p \in Posts : EditPost(p) \/ ReadForStatus(p) \/ SaveStatus(p)
    BY <1>4, <1>9 DEF EditPost, ReadForStatus, SaveStatus
  <1>10. ASSUME NEW q \in Publishers, NEW p \in Posts, ClaimPost(q, p)
         PROVE  Cold(k)'
    <2>1. /\ OthersWait(q) /\ publisher'[q] = Starting("send", "request", {}, {p})
          /\ campaign' = [campaign EXCEPT ![CampaignOf[p]] = "approved"] /\ UNCHANGED live
      BY <1>0, <1>10, ClaimStep
    <2>2. CampaignOf[p] # k
      BY <1>0, <1>1, <2>1 DEF Fresh, StudioTypeOK
    <2>3. Spared(publisher'[q], k)
      BY <1>3, <2>1, <2>2 DEF Spared, Starting
    <2>. QED BY <1>5, <2>1, <2>3
  <1>11. ASSUME NEW q \in Publishers, NEW c \in Campaigns, ReadCampaign(q, c)
         PROVE  Cold(k)'
    <2>1. /\ OthersWait(q) /\ publisher'[q] = Starting("read", "run", {c}, {})
          /\ campaign[c] = "approved" /\ UNCHANGED live
      BY <1>0, <1>11, ReadCampaignStep
    <2>2. Spared(publisher'[q], k)
      BY <1>2, <2>1 DEF Spared, Starting, Fresh
    <2>. QED BY <1>5, <2>1, <2>2
  <1>12. ASSUME NEW q \in Publishers, NEW c \in Campaigns,
                ReadPosts(q, c) \/ MarkCampaign(q, c) \/ FinishCampaign(q, c)
         PROVE  Cold(k)'
    BY <1>0, <1>6, <1>7, <1>12, ReadPostsStep, MarkCampaignStep, FinishCampaignStep
  <1>13. ASSUME NEW q \in Publishers, NEW p \in Posts, StartPost(q, p)
         PROVE  Cold(k)'
    <2>1. /\ p \in publisher[q].todo /\ RecordOK(publisher[q]) /\ publisher[q].role = "run"
          /\ publisher'[q].campaign = publisher[q].campaign /\ publisher'[q].post = {p}
          /\ OthersWait(q) /\ UNCHANGED live
      BY <1>0, <1>13, StartPostStep DEF PublisherOK, RecordOK, PublisherAt, Becomes
    <2>2. PICK c \in Campaigns : publisher[q].campaign = {c} /\ p \in PostsOf(c)
      BY <2>1 DEF RecordOK
    <2>3. c # k
      BY <1>2, <2>2 DEF Cold, Spared
    <2>4. p \notin PostsOf(k)
      BY <2>2, <2>3 DEF PostsOf
    <2>5. Spared(publisher'[q], k)
      BY <2>1, <2>2, <2>3, <2>4 DEF Spared
    <2>. QED BY <1>5, <2>1, <2>5
  <1>14. ASSUME NEW q \in Publishers, NEW p \in Posts, Send(q, p)
         PROVE  Cold(k)'
    <2>1. /\ \A o \in Posts : o # p => live'[o] = live[o]
          /\ publisher'[q].campaign = publisher[q].campaign
          /\ publisher'[q].post = publisher[q].post /\ publisher[q].post = {p} /\ OthersWait(q)
      BY <1>0, <1>14, SendStep DEF Becomes, InHand
    <2>2. p \notin PostsOf(k)
      BY <1>2, <2>1 DEF Cold, Spared
    <2>. QED BY <1>2, <1>3, <2>1, <2>2 DEF Cold, Spared, OthersWait
  <1>15. ASSUME NEW q \in Publishers, NEW p \in Posts,
                RecordPublished(q, p) \/ RecordUploaded(q, p) \/ RecordFailed(q, p) \/ SetCampaign(q, p)
         PROVE  Cold(k)'
    BY <1>0, <1>6, <1>7, <1>15, RecordPublishedStep, RecordUploadedStep, RecordFailedStep,
       SetCampaignStep
  <1>16. ASSUME NEW q \in Publishers, StatementThrows(q) \/ PublisherEnds(q)
         PROVE  Cold(k)'
    BY <1>0, <1>6, <1>7, <1>16, StatementThrowsStep, PublisherEndsStep
  <1>. QED BY <1>8, <1>9, <1>10, <1>11, <1>12, <1>13, <1>14, <1>15, <1>16
           DEF StudioNext, PublisherStep

\* Nobody gives a stop back.
LEMMA StopsStay ==
    ASSUME StudioInv, StudioNext, stops' = 0
    PROVE  stops = 0
  <1>1. stops \in Nat /\ StudioTypeOK
    BY DEF StudioInv, StudioTypeOK
  <1>2. CASE \E c \in Campaigns : ApproveCampaign(c) \/ RejectCampaign(c) \/ RejectPosts(c)
    BY <1>1, <1>2, ApproveStep, RejectPostsStep DEF RejectCampaign, Smooth, SameBudget
  <1>3. CASE \E p \in Posts : EditPost(p) \/ ReadForStatus(p) \/ SaveStatus(p)
    BY <1>3 DEF EditPost, ReadForStatus, SaveStatus, Smooth
  <1>4. CASE \E q \in Publishers : \/ \E p \in Posts : ClaimPost(q, p)
                                   \/ \E c \in Campaigns : ReadCampaign(q, c)
    BY <1>4 DEF ClaimPost, ReadCampaign, Smooth
  <1>5. ASSUME NEW q \in Publishers, NEW c \in Campaigns,
               ReadPosts(q, c) \/ MarkCampaign(q, c) \/ FinishCampaign(q, c)
        PROVE  stops = 0
    BY <1>5 DEF ReadPosts, MarkCampaign, FinishCampaign, Smooth
  <1>6. ASSUME NEW q \in Publishers, NEW p \in Posts,
               StartPost(q, p) \/ Send(q, p) \/ SetCampaign(q, p)
        PROVE  stops = 0
    BY <1>1, <1>6, StartPostStep, SendStep, SetCampaignStep DEF SameBudget
  <1>7. ASSUME NEW q \in Publishers, NEW p \in Posts,
               RecordPublished(q, p) \/ RecordUploaded(q, p) \/ RecordFailed(q, p)
        PROVE  stops = 0
    BY <1>7 DEF RecordPublished, RecordUploaded, RecordFailed, Smooth
  <1>8. ASSUME NEW q \in Publishers, StatementThrows(q) \/ PublisherEnds(q)
        PROVE  stops = 0
    BY <1>1, <1>8 DEF StatementThrows, PublisherEnds, Slip, StopHere
  <1>. QED BY <1>2, <1>3, <1>4, <1>5, <1>6, <1>7, <1>8 DEF StudioNext, PublisherStep

LEMMA PostsStayBusy ==
    ASSUME StudioInv, StudioNext
    PROVE  BusyPosts'
  <1>0. StudioTypeOK /\ PublisherOK /\ RefreshingOK /\ BusyPosts
    BY DEF StudioInv
  <1>1. SUFFICES ASSUME stops' = 0, NEW k \in Posts \ TikTokPosts, post'[k].status = "publishing"
                 PROVE  \E q \in Publishers : Holder(publisher'[q], k)
    BY DEF BusyPosts
  <1>2. post[k].status = "publishing" => \E q \in Publishers : Holder(publisher[q], k)
    BY <1>0, <1>1, StopsStay DEF BusyPosts
  <1>3. ASSUME post[k].status = "publishing", UNCHANGED publisher
        PROVE  \E q \in Publishers : Holder(publisher'[q], k)
    BY <1>2, <1>3
  <1>4. ASSUME NEW q \in Publishers, post[k].status = "publishing", OthersWait(q),
               Holder(publisher[q], k) => Holder(publisher'[q], k)
        PROVE  \E u \in Publishers : Holder(publisher'[u], k)
    BY <1>2, <1>4 DEF OthersWait
  <1>5. ASSUME NEW c \in Campaigns, ApproveCampaign(c) \/ RejectCampaign(c) \/ RejectPosts(c)
        PROVE  post[k].status = "publishing" /\ UNCHANGED publisher
    BY <1>0, <1>1, <1>5, ApproveStep, RejectPostsStep DEF RejectCampaign, ApprovalOf
  <1>6. ASSUME NEW p \in Posts, EditPost(p) \/ ReadForStatus(p) \/ SaveStatus(p)
        PROVE  post[k].status = "publishing" /\ UNCHANGED publisher
    BY <1>0, <1>1, <1>6, EditStep, SaveStatusStep DEF ReadForStatus, PostBecomes, RefreshingOK
  <1>7. ASSUME NEW q \in Publishers, NEW p \in Posts, ClaimPost(q, p)
        PROVE  \E u \in Publishers : Holder(publisher'[u], k)
    <2>1. /\ publisher'[q] = Starting("send", "request", {}, {p}) /\ OthersWait(q)
          /\ publisher[q] = Resting /\ PostBecomes(p, "publishing", TRUE)
      BY <1>0, <1>7, ClaimStep DEF PublisherOK, RecordOK, PublisherAt
    <2>2. CASE k = p
      BY <2>1, <2>2 DEF Holder, Starting
    <2>3. CASE k # p
      BY <1>1, <1>4, <2>1, <2>3 DEF PostBecomes, Holder, Resting, Starting
    <2>. QED BY <2>2, <2>3
  <1>8. ASSUME NEW q \in Publishers, NEW c \in Campaigns, ReadCampaign(q, c)
        PROVE  \E u \in Publishers : Holder(publisher'[u], k)
    BY <1>0, <1>1, <1>4, <1>8, ReadCampaignStep DEF PublisherAt, Holder
  <1>9. ASSUME NEW q \in Publishers, NEW c \in Campaigns,
               ReadPosts(q, c) \/ MarkCampaign(q, c) \/ FinishCampaign(q, c)
        PROVE  \E u \in Publishers : Holder(publisher'[u], k)
    <2>1. publisher[q].at \in {"read", "mark", "next"} /\ OthersWait(q) /\ UNCHANGED post
      BY <1>0, <1>9, ReadPostsStep, MarkCampaignStep, FinishCampaignStep
         DEF PublisherAt, Becomes, Rests
    <2>. QED BY <1>1, <1>4, <2>1 DEF Holder
  <1>10. ASSUME NEW q \in Publishers, NEW p \in Posts, StartPost(q, p)
         PROVE  \E u \in Publishers : Holder(publisher'[u], k)
    <2>1. /\ publisher[q].at = "next" /\ OthersWait(q) /\ publisher'[q].post = {p}
          /\ publisher'[q].at \in {"send", "fail"}
          /\ k # p => post'[k] = post[k]
      BY <1>0, <1>1, <1>10, StartPostStep DEF PublisherAt, Becomes, PostBecomes
    <2>2. CASE k = p
      BY <2>1, <2>2 DEF Holder
    <2>3. CASE k # p
      BY <1>1, <1>4, <2>1, <2>3 DEF Holder
    <2>. QED BY <2>2, <2>3
  <1>11. ASSUME NEW q \in Publishers, NEW p \in Posts, Send(q, p)
         PROVE  \E u \in Publishers : Holder(publisher'[u], k)
    <2>1. /\ OthersWait(q) /\ publisher'[q].post = publisher[q].post
          /\ publisher'[q].at \in {"posted", "fail"} /\ UNCHANGED post
      BY <1>0, <1>11, SendStep DEF Becomes
    <2>. QED BY <1>1, <1>4, <2>1 DEF Holder
  <1>12. ASSUME NEW q \in Publishers, NEW p \in Posts,
                RecordPublished(q, p) \/ RecordUploaded(q, p) \/ RecordFailed(q, p)
         PROVE  \E u \in Publishers : Holder(publisher'[u], k)
    <2>1. /\ OthersWait(q) /\ publisher[q].post = {p}
          /\ k # p => post'[k] = post[k]
          /\ k = p => /\ UNCHANGED post /\ publisher'[q].at = "fail"
                      /\ publisher'[q].post = publisher[q].post
      <3>1. CASE RecordPublished(q, p)
        BY <1>0, <1>1, <3>1, RecordPublishedStep DEF InHand, Becomes, PostBecomes
      <3>2. CASE RecordUploaded(q, p)
        BY <1>0, <1>1, <3>2, RecordUploadedStep DEF InHand, Becomes, Rests, PostBecomes
      <3>3. CASE RecordFailed(q, p)
        BY <1>0, <1>1, <3>3, RecordFailedStep DEF InHand, Becomes, PostBecomes
      <3>. QED BY <1>12, <3>1, <3>2, <3>3
    <2>. QED BY <1>1, <1>4, <2>1 DEF Holder
  <1>13. ASSUME NEW q \in Publishers, NEW p \in Posts, SetCampaign(q, p)
         PROVE  \E u \in Publishers : Holder(publisher'[u], k)
    BY <1>0, <1>1, <1>4, <1>13, SetCampaignStep DEF Rests, Holder
  <1>14. ASSUME NEW q \in Publishers, StatementThrows(q)
         PROVE  \E u \in Publishers : Holder(publisher'[u], k)
    BY <1>0, <1>1, <1>4, <1>14, StatementThrowsStep DEF Becomes, Holder
  <1>15. ASSUME NEW q \in Publishers, PublisherEnds(q)
         PROVE  FALSE
    BY <1>0, <1>1, <1>15, PublisherEndsStep DEF StudioTypeOK
  <1>. QED BY <1>3, <1>5, <1>6, <1>7, <1>8, <1>9, <1>10, <1>11, <1>12, <1>13, <1>14, <1>15
           DEF StudioNext, PublisherStep

LEMMA CampaignsStayBusy ==
    ASSUME StudioInv, StudioNext
    PROVE  BusyCampaigns'
  <1>0. StudioTypeOK /\ PublisherOK /\ BusyCampaigns
    BY DEF StudioInv
  <1>1. SUFFICES ASSUME stops' = 0, NEW k \in Campaigns, campaign'[k] = "publishing"
                 PROVE  \E q \in Publishers : Runner(publisher'[q], k)
    BY DEF BusyCampaigns
  <1>2. campaign[k] = "publishing" => \E q \in Publishers : Runner(publisher[q], k)
    BY <1>0, <1>1, StopsStay DEF BusyCampaigns
  <1>3. ASSUME campaign[k] = "publishing", UNCHANGED publisher
        PROVE  \E q \in Publishers : Runner(publisher'[q], k)
    BY <1>2, <1>3
  <1>4. ASSUME NEW q \in Publishers, campaign[k] = "publishing", OthersWait(q),
               Runner(publisher[q], k) => Runner(publisher'[q], k)
        PROVE  \E u \in Publishers : Runner(publisher'[u], k)
    BY <1>2, <1>4 DEF OthersWait
  <1>5. ASSUME NEW c \in Campaigns, ApproveCampaign(c) \/ RejectCampaign(c) \/ RejectPosts(c)
        PROVE  campaign[k] = "publishing" /\ UNCHANGED publisher
    BY <1>0, <1>1, <1>5, ApproveStep, RejectPostsStep DEF RejectCampaign, Unreviewed, StudioTypeOK
  <1>6. ASSUME NEW p \in Posts, EditPost(p) \/ ReadForStatus(p) \/ SaveStatus(p)
        PROVE  campaign[k] = "publishing" /\ UNCHANGED publisher
    BY <1>1, <1>6 DEF EditPost, SaveStatus, ReadForStatus
  <1>7. ASSUME NEW q \in Publishers, NEW p \in Posts, ClaimPost(q, p)
        PROVE  \E u \in Publishers : Runner(publisher'[u], k)
    <2>1. /\ publisher[q].at = "rest" /\ OthersWait(q)
          /\ campaign' = [campaign EXCEPT ![CampaignOf[p]] = "approved"]
      BY <1>0, <1>7, ClaimStep DEF PublisherAt
    <2>2. campaign[k] = "publishing"
      BY <1>0, <1>1, <2>1 DEF StudioTypeOK
    <2>. QED BY <1>4, <2>1, <2>2 DEF Runner
  <1>8. ASSUME NEW q \in Publishers, NEW c \in Campaigns, ReadCampaign(q, c) \/ ReadPosts(q, c)
        PROVE  \E u \in Publishers : Runner(publisher'[u], k)
    <2>1. publisher[q].at \in {"rest", "read"} /\ OthersWait(q) /\ UNCHANGED campaign
      BY <1>0, <1>8, ReadCampaignStep, ReadPostsStep DEF PublisherAt, Becomes, Rests
    <2>. QED BY <1>1, <1>4, <2>1 DEF Runner
  <1>9. ASSUME NEW q \in Publishers, NEW c \in Campaigns, MarkCampaign(q, c)
        PROVE  \E u \in Publishers : Runner(publisher'[u], k)
    <2>1. /\ publisher[q].at = "mark" /\ OthersWait(q)
          /\ publisher'[q].campaign = {c} /\ publisher'[q].at = "next"
          /\ campaign' = [campaign EXCEPT ![c] = "publishing"]
      BY <1>0, <1>9, MarkCampaignStep DEF PublisherAt, Becomes
    <2>2. CASE k = c
      BY <2>1, <2>2 DEF Runner
    <2>3. CASE k # c
      BY <1>0, <1>1, <1>4, <2>1, <2>3 DEF Runner, StudioTypeOK
    <2>. QED BY <2>2, <2>3
  <1>10. ASSUME NEW q \in Publishers, NEW c \in Campaigns, FinishCampaign(q, c)
         PROVE  \E u \in Publishers : Runner(publisher'[u], k)
    <2>1. /\ publisher[q].campaign = {c} /\ OthersWait(q)
          /\ \E s \in {"published", "partially_published", "failed"} :
                campaign' = [campaign EXCEPT ![c] = s]
      BY <1>0, <1>10, FinishCampaignStep DEF Rests
    <2>2. k # c /\ campaign[k] = "publishing"
      BY <1>0, <1>1, <2>1 DEF StudioTypeOK
    <2>. QED BY <1>4, <2>1, <2>2 DEF Runner
  <1>11. ASSUME NEW q \in Publishers, NEW p \in Posts, StartPost(q, p) \/ Send(q, p)
         PROVE  \E u \in Publishers : Runner(publisher'[u], k)
    <2>1. /\ publisher'[q].at \in {"send", "posted", "fail"} /\ OthersWait(q)
          /\ publisher'[q].campaign = publisher[q].campaign /\ UNCHANGED campaign
      BY <1>0, <1>11, StartPostStep, SendStep DEF Becomes
    <2>. QED BY <1>1, <1>4, <2>1 DEF Runner
  <1>12. ASSUME NEW q \in Publishers, NEW p \in Posts, RecordPublished(q, p) \/ RecordFailed(q, p)
         PROVE  \E u \in Publishers : Runner(publisher'[u], k)
    <2>1. /\ IsRun(q) => publisher'[q].at \in {"next", "fail"}
          /\ OthersWait(q) /\ publisher'[q].campaign = publisher[q].campaign /\ UNCHANGED campaign
      BY <1>0, <1>12, RecordPublishedStep, RecordFailedStep DEF Becomes
    <2>2. ~IsRun(q) => publisher[q].campaign = {}
      BY <1>0 DEF PublisherOK, RecordOK, IsRun
    <2>. QED BY <1>1, <1>4, <2>1, <2>2 DEF Runner
  <1>13. ASSUME NEW q \in Publishers, NEW p \in Posts, RecordUploaded(q, p) \/ SetCampaign(q, p)
         PROVE  \E u \in Publishers : Runner(publisher'[u], k)
    <2>1. /\ ~IsRun(q) /\ OthersWait(q)
          /\ \E s \in {"partially_published", "failed"} :
                \/ campaign' = [campaign EXCEPT ![CampaignOf[p]] = s]
                \/ UNCHANGED campaign
      BY <1>0, <1>13, RecordUploadedStep, SetCampaignStep DEF Becomes, Rests
    <2>2. publisher[q].campaign = {}
      BY <1>0, <2>1 DEF PublisherOK, RecordOK, IsRun
    <2>3. campaign[k] = "publishing"
      BY <1>0, <1>1, <2>1 DEF StudioTypeOK
    <2>. QED BY <1>4, <2>1, <2>2, <2>3 DEF Runner
  <1>14. ASSUME NEW q \in Publishers, StatementThrows(q)
         PROVE  \E u \in Publishers : Runner(publisher'[u], k)
    BY <1>0, <1>1, <1>4, <1>14, StatementThrowsStep DEF Becomes, Runner
  <1>15. ASSUME NEW q \in Publishers, PublisherEnds(q)
         PROVE  FALSE
    BY <1>0, <1>1, <1>15, PublisherEndsStep DEF StudioTypeOK
  <1>. QED BY <1>3, <1>5, <1>6, <1>7, <1>8, <1>9, <1>10, <1>11, <1>12, <1>13, <1>14, <1>15
           DEF StudioNext, PublisherStep

\* What is left of the invariant when nobody but q is at work.
OthersRest(q) == \A u \in Publishers : u # q => PublisherAt(u, "rest")
SpentBy(q, p) == \/ post[p].status = "published"
                 \/ publisher[q].at = "posted" /\ publisher[q].post = {p}
InOrderFor(q) ==
    \A p \in Posts \ TikTokPosts :
        /\ InOrder(publisher[q], p)
        /\ live[p] <= slips + stops + (IF SpentBy(q, p) THEN 1 ELSE 0)

LEMMA AloneFor ==
    ASSUME StudioInv, NEW q \in Publishers, ~overlapped, OthersRest(q)
    PROVE  InOrderFor(q)
  <1>1. Alone /\ PublisherOK
    BY DEF StudioInv
  <1>2. ASSUME NEW p \in Posts \ TikTokPosts
        PROVE  Spent(p) => SpentBy(q, p)
    BY DEF Spent, SpentBy, OthersRest, PublisherAt, InHand
  <1>3. ASSUME NEW p \in Posts \ TikTokPosts
        PROVE  InOrder(publisher[q], p) /\ Accounted(p)
    BY <1>1 DEF Alone
  <1>4. slips \in Nat /\ stops \in Nat /\ \A p \in Posts : live[p] \in Nat
    BY SlipsAssumption DEF StudioInv, StudioTypeOK
  <1>. QED BY <1>2, <1>3, <1>4 DEF InOrderFor, Accounted

LEMMA AloneFrom ==
    ASSUME StudioInv, NEW q \in Publishers, OthersRest(q), OthersWait(q), InOrderFor(q)',
           slips' \in Nat, stops' \in Nat, \A p \in Posts : live'[p] \in Nat
    PROVE  Alone'
  <1>1. ASSUME NEW u \in Publishers, u # q
        PROVE  publisher'[u] = Resting
    BY <1>1 DEF OthersWait, OthersRest, StudioInv, PublisherOK, RecordOK, PublisherAt
  <1>2. OneAtWork'
    BY <1>1 DEF OneAtWork, PublisherAt, Resting, Starting
  <1>3. ASSUME NEW p \in Posts \ TikTokPosts
        PROVE  Accounted(p)'
    <2>1. SpentBy(q, p)' => Spent(p)'
      BY DEF Spent, SpentBy, PublisherAt, InHand
    <2>. QED BY <2>1 DEF InOrderFor, Accounted
  <1>4. ASSUME NEW p \in Posts \ TikTokPosts, NEW u \in Publishers
        PROVE  InOrder(publisher[u], p)'
    <2>1. CASE u = q
      BY <2>1 DEF InOrderFor
    <2>2. CASE u # q
      BY <1>1, <2>2 DEF InOrder, Resting, Starting
    <2>. QED BY <2>1, <2>2
  <1>. QED BY <1>2, <1>3, <1>4 DEF Alone

LEMMA StaysAlone ==
    ASSUME StudioInv, StudioNext
    PROVE  Alone'
  <1>0. StudioTypeOK /\ PublisherOK /\ RefreshingOK /\ Alone
    BY DEF StudioInv
  <1>1. slips \in Nat /\ stops \in Nat /\ \A p \in Posts : live[p] \in Nat
    BY <1>0, SlipsAssumption DEF StudioTypeOK
  \* The review.
  <1>2. ASSUME UNCHANGED <<live, publisher, overlapped, slips>>, stops' \in {stops, stops + 1},
               \A k \in Posts \ TikTokPosts :
                  /\ post'[k].status = "published" <=> post[k].status = "published"
                  /\ post[k].status = "publishing" =>
                        post'[k].status = "publishing" /\ (Gate(k) => Gate(k)')
        PROVE  Alone'
    <2>1. SUFFICES ASSUME ~overlapped
                   PROVE  /\ OneAtWork'
                          /\ \A k \in Posts \ TikTokPosts :
                                Accounted(k)' /\ \A q \in Publishers : InOrder(publisher[q], k)'
      BY <1>2 DEF Alone
    <2>2. OneAtWork'
      BY <1>0, <1>2, <2>1 DEF Alone, OneAtWork, PublisherAt
    <2>3. ASSUME NEW k \in Posts \ TikTokPosts
          PROVE  Accounted(k)' /\ \A q \in Publishers : InOrder(publisher[q], k)'
      <3>1. Accounted(k) /\ \A q \in Publishers : InOrder(publisher[q], k)
        BY <1>0, <2>1 DEF Alone
      <3>2. Spent(k)' <=> Spent(k)
        BY <1>2 DEF Spent, PublisherAt, InHand
      <3>3. Accounted(k)'
        BY <1>1, <1>2, <3>1, <3>2 DEF Accounted
      <3>4. ASSUME NEW q \in Publishers
            PROVE  InOrder(publisher[q], k)'
        BY <1>1, <1>2, <3>1 DEF InOrder
      <3>. QED BY <3>3, <3>4
    <2>. QED BY <2>2, <2>3
  <1>3. ASSUME NEW c \in Campaigns, ApproveCampaign(c)
        PROVE  Alone'
    <2>1. /\ \A k \in Posts : post'[k] = post[k] \/ post[k].status \in {"pending_review", "failed"}
          /\ \A k \in Posts : post'[k] = post[k] \/ post'[k].status = "approved"
          /\ \A k \in Posts : campaign[CampaignOf[k]] \in OpenToPublish
                                 => campaign'[CampaignOf[k]] \in OpenToPublish
      BY <1>0, <1>3, ApproveStep, CampaignsAssumption DEF ApprovalOf, StudioTypeOK, OpenToPublish
    <2>2. UNCHANGED <<live, publisher, overlapped, slips, stops>>
      BY <1>0, <1>3, ApproveStep DEF SameBudget
    <2>. QED BY <1>2, <2>1, <2>2 DEF Gate
  <1>4. ASSUME NEW c \in Campaigns, RejectCampaign(c)
        PROVE  Alone'
    <2>1. \A k \in Posts : campaign[CampaignOf[k]] \in OpenToPublish
                              => campaign'[CampaignOf[k]] \in OpenToPublish
      BY <1>0, <1>4, CampaignsAssumption DEF RejectCampaign, Unreviewed, StudioTypeOK, OpenToPublish
    <2>2. UNCHANGED <<post, live, publisher, overlapped, slips, stops>>
      BY <1>4 DEF RejectCampaign, Smooth
    <2>. QED BY <1>2, <2>1, <2>2 DEF Gate
  <1>5. ASSUME NEW c \in Campaigns, RejectPosts(c)
        PROVE  Alone'
    <2>1. /\ \A k \in Posts : \/ post'[k] = post[k]
                              \/ post[k].status = "pending_review" /\ post'[k].status = "rejected"
          /\ UNCHANGED <<campaign, live, publisher, overlapped, slips>>
          /\ stops' \in {stops, stops + 1}
      BY <1>0, <1>5, RejectPostsStep
    <2>. QED BY <1>2, <2>1 DEF Gate
  <1>6. ASSUME NEW p \in Posts, EditPost(p)
        PROVE  Alone'
    <2>1. /\ post[p].status \in Editable /\ post'[p].status = "pending_review"
          /\ \A k \in Posts : k # p => post'[k] = post[k]
          /\ UNCHANGED <<campaign, live, publisher, overlapped, slips, stops>>
      BY <1>0, <1>6, EditStep DEF PostBecomes, SameBudget
    <2>. QED BY <1>2, <2>1 DEF Gate, Editable
  <1>7. ASSUME NEW p \in Posts, ReadForStatus(p) \/ SaveStatus(p)
        PROVE  Alone'
    <2>1. /\ \A k \in Posts \ TikTokPosts : post'[k] = post[k]
          /\ UNCHANGED <<campaign, live, publisher, overlapped, slips, stops>>
      BY <1>0, <1>7, SaveStatusStep DEF ReadForStatus, PostBecomes, SameBudget, Smooth, RefreshingOK
    <2>. QED BY <1>2, <2>1 DEF Gate
  \* The publishers.
  <1>8. ASSUME NEW q \in Publishers, OthersWait(q),
               overlapped' = overlapped, ~PublisherAt(q, "rest"),
               slips' \in Nat, stops' \in Nat, \A p \in Posts : live'[p] \in Nat,
               (~overlapped /\ OthersRest(q) /\ InOrderFor(q)) => InOrderFor(q)'
        PROVE  Alone'
    <2>1. CASE overlapped
      BY <1>8, <2>1 DEF Alone
    <2>2. CASE ~overlapped
      <3>1. OthersRest(q)
        BY <1>0, <1>8, <2>2 DEF Alone, OneAtWork, OthersRest
      <3>2. InOrderFor(q)'
        BY <1>8, <2>2, <3>1, AloneFor
      <3>. QED BY <1>8, <3>1, <3>2, AloneFrom
    <2>. QED BY <2>1, <2>2
  <1>9. ASSUME NEW q \in Publishers, OthersWait(q), PublisherAt(q, "rest"),
               overlapped' = (overlapped \/ \E u \in Publishers \ {q} : ~PublisherAt(u, "rest")),
               UNCHANGED <<live, slips, stops>>,
               InOrderFor(q) => InOrderFor(q)'
        PROVE  Alone'
    <2>1. CASE overlapped'
      BY <2>1 DEF Alone
    <2>2. CASE ~overlapped'
      <3>1. ~overlapped /\ OthersRest(q)
        BY <1>9, <2>2 DEF OthersRest
      <3>2. InOrderFor(q)'
        BY <1>9, <3>1, AloneFor
      <3>3. slips' \in Nat /\ stops' \in Nat /\ \A p \in Posts : live'[p] \in Nat
        BY <1>1, <1>9
      <3>. QED BY <1>9, <3>1, <3>2, <3>3, AloneFrom
    <2>. QED BY <2>1, <2>2
  <1>10. ASSUME NEW q \in Publishers, NEW p \in Posts, ClaimPost(q, p)
         PROVE  Alone'
    <2>0. /\ publisher'[q] = Starting("send", "request", {}, {p})
          /\ PublisherAt(q, "rest") /\ OthersWait(q)
          /\ post[p].status \in Editable /\ PostBecomes(p, "publishing", TRUE)
          /\ UNCHANGED <<live, slips, stops>>
      BY <1>0, <1>10, ClaimStep DEF SameBudget
    <2>a. publisher[q] = Resting
      BY <1>0, <2>0 DEF PublisherOK, RecordOK, PublisherAt
    <2>b. /\ publisher'[q].at = "send" /\ publisher'[q].post = {p} /\ publisher'[q].todo = {}
      BY <2>0 DEF Starting
    <2>c. /\ post'[p].status = "publishing" /\ post'[p].approved
          /\ \A k \in Posts : k # p => post'[k] = post[k]
      BY <2>0 DEF PostBecomes
    <2>1. /\ publisher'[q].at = "send" /\ publisher'[q].post = {p} /\ publisher'[q].todo = {}
          /\ publisher[q] = Resting /\ PublisherAt(q, "rest") /\ OthersWait(q)
          /\ post[p].status \in Editable
          /\ post'[p].status = "publishing" /\ post'[p].approved
          /\ \A k \in Posts : k # p => post'[k] = post[k]
          /\ UNCHANGED <<live, slips, stops>>
      BY <2>0, <2>a, <2>b, <2>c
    <2>2. campaign'[CampaignOf[p]] = "approved"
      BY <1>0, <1>10, ClaimStep, CampaignsAssumption DEF StudioTypeOK
    <2>3. overlapped' = (overlapped \/ \E u \in Publishers \ {q} : ~PublisherAt(u, "rest"))
      BY <1>0, <1>10, ClaimStep
    <2>4. ASSUME InOrderFor(q), NEW k \in Posts \ TikTokPosts
          PROVE  /\ InOrder(publisher[q], k)'
                 /\ live'[k] <= slips' + stops' + (IF SpentBy(q, k)' THEN 1 ELSE 0)
      <3>1. InOrder(publisher[q], k)'
        BY <2>1, <2>2 DEF InOrder, Gate, OpenToPublish
      <3>2. live[k] <= slips + stops + (IF SpentBy(q, k) THEN 1 ELSE 0)
        BY <2>4 DEF InOrderFor
      <3>3. SpentBy(q, k) => SpentBy(q, k)'
        BY <2>1 DEF SpentBy, Editable, Resting, Starting
      <3>. QED BY <1>1, <2>1, <3>1, <3>2, <3>3
    <2>5. InOrderFor(q) => InOrderFor(q)'
      BY <2>4 DEF InOrderFor
    <2>. QED BY <1>9, <2>1, <2>3, <2>5
  <1>11. ASSUME NEW q \in Publishers, NEW c \in Campaigns, ReadCampaign(q, c)
         PROVE  Alone'
    <2>0. /\ publisher'[q] = Starting("read", "run", {c}, {})
          /\ PublisherAt(q, "rest") /\ OthersWait(q)
          /\ UNCHANGED <<post, live, slips, stops>>
      BY <1>0, <1>11, ReadCampaignStep DEF SameBudget
    <2>a. publisher[q] = Resting
      BY <1>0, <2>0 DEF PublisherOK, RecordOK, PublisherAt
    <2>b. /\ publisher'[q].at = "read" /\ publisher'[q].post = {} /\ publisher'[q].todo = {}
      BY <2>0 DEF Starting
    <2>1. /\ publisher'[q].at = "read" /\ publisher'[q].post = {} /\ publisher'[q].todo = {}
          /\ publisher[q] = Resting /\ OthersWait(q) /\ PublisherAt(q, "rest")
          /\ UNCHANGED <<post, live, slips, stops>>
      BY <2>0, <2>a, <2>b
    <2>2. overlapped' = (overlapped \/ \E u \in Publishers \ {q} : ~PublisherAt(u, "rest"))
      BY <1>0, <1>11, ReadCampaignStep
    <2>3. InOrderFor(q) => InOrderFor(q)'
      BY <1>1, <2>1 DEF InOrderFor, InOrder, SpentBy, Resting, Starting
    <2>. QED BY <1>9, <2>1, <2>2, <2>3
  <1>12. ASSUME NEW q \in Publishers, OthersWait(q), ~PublisherAt(q, "rest"),
                UNCHANGED <<post, live, overlapped, slips>>,
                publisher'[q].at \notin {"send", "posted", "fail"},
                \A k \in publisher'[q].todo :
                   k \in publisher[q].todo \/ post[k].status = "approved",
                \/ stops' = stops /\ publisher[q].at # "posted"
                \/ stops' = stops + 1
         PROVE  Alone'
    <2>1. ASSUME InOrderFor(q), NEW k \in Posts \ TikTokPosts
          PROVE  /\ InOrder(publisher[q], k)'
                 /\ live'[k] <= slips' + stops' + (IF SpentBy(q, k)' THEN 1 ELSE 0)
      <3>1. /\ InOrder(publisher[q], k)
            /\ live[k] <= slips + stops + (IF SpentBy(q, k) THEN 1 ELSE 0)
        BY <2>1 DEF InOrderFor
      <3>2. InOrder(publisher[q], k)'
        BY <1>12, <3>1 DEF InOrder
      <3>3. stops' = stops => (SpentBy(q, k) => SpentBy(q, k)')
        BY <1>1, <1>12 DEF SpentBy
      <3>. QED BY <1>1, <1>12, <3>1, <3>2, <3>3
    <2>2. InOrderFor(q) => InOrderFor(q)'
      BY <2>1 DEF InOrderFor
    <2>. QED BY <1>1, <1>8, <1>12, <2>2
  <1>13. ASSUME NEW q \in Publishers, NEW c \in Campaigns,
                ReadPosts(q, c) \/ MarkCampaign(q, c) \/ FinishCampaign(q, c)
         PROVE  Alone'
    <2>1. /\ publisher[q].at \in {"read", "mark", "next"} /\ OthersWait(q)
          /\ UNCHANGED <<post, live, overlapped, slips, stops>>
      BY <1>0, <1>13, ReadPostsStep, MarkCampaignStep, FinishCampaignStep
         DEF PublisherAt, Becomes, Rests, SameBudget
    <2>2. /\ publisher'[q].at \in {"rest", "mark", "next"}
          /\ \A k \in publisher'[q].todo : k \in publisher[q].todo \/ post[k].status = "approved"
      BY <1>0, <1>13, ReadPostsStep, MarkCampaignStep, FinishCampaignStep
         DEF Becomes, Rests, Resting, Starting, ApprovedPosts
    <2>. QED BY <1>12, <2>1, <2>2 DEF PublisherAt
  <1>14. ASSUME NEW q \in Publishers, NEW p \in Posts, SetCampaign(q, p)
         PROVE  Alone'
    <2>1. /\ publisher[q].at \in {"campaign", "campaign failed"} /\ Rests(q)
          /\ UNCHANGED <<post, live, overlapped, slips, stops>>
      BY <1>0, <1>14, SetCampaignStep DEF SameBudget
    <2>2. publisher'[q] = Resting /\ OthersWait(q)
      BY <2>1 DEF Rests
    <2>3. publisher'[q].at = "rest" /\ publisher'[q].todo = {}
      BY <2>2 DEF Resting, Starting
    <2>. QED BY <1>12, <2>1, <2>2, <2>3 DEF PublisherAt
  <1>15. ASSUME NEW q \in Publishers, PublisherEnds(q)
         PROVE  Alone'
    <2>1. /\ ~PublisherAt(q, "rest") /\ Rests(q)
          /\ stops' = stops + 1 /\ UNCHANGED <<post, live, overlapped, slips>>
      BY <1>0, <1>15, PublisherEndsStep DEF PublisherEnds
    <2>2. publisher'[q].at = "rest" /\ publisher'[q].todo = {} /\ OthersWait(q)
      BY <2>1 DEF Rests, Resting, Starting
    <2>. QED BY <1>12, <2>1, <2>2
  <1>16. ASSUME NEW q \in Publishers, NEW p \in Posts, StartPost(q, p)
         PROVE  Alone'
    <2>1. /\ publisher[q].at = "next" /\ p \in publisher[q].todo /\ OthersWait(q)
          /\ publisher'[q].todo = publisher[q].todo \ {p} /\ publisher'[q].post = {p}
          /\ publisher'[q].at = (IF Gate(p) THEN "send" ELSE "fail")
          /\ UNCHANGED <<campaign, live, overlapped, slips, stops>>
      BY <1>0, <1>16, StartPostStep DEF PublisherAt, Becomes, SameBudget
    <2>2. /\ \A k \in Posts : k # p => post'[k] = post[k]
          /\ Gate(p) => post'[p].status = "publishing" /\ Gate(p)'
          /\ ~Gate(p) => post'[p] = post[p]
      BY <1>0, <1>16, <2>1, StartPostStep DEF PostBecomes, Gate
    <2>3. ASSUME InOrderFor(q), NEW k \in Posts \ TikTokPosts
          PROVE  /\ InOrder(publisher[q], k)'
                 /\ live'[k] <= slips' + stops' + (IF SpentBy(q, k)' THEN 1 ELSE 0)
      <3>1. /\ InOrder(publisher[q], k)
            /\ live[k] <= slips + stops + (IF SpentBy(q, k) THEN 1 ELSE 0)
        BY <2>3 DEF InOrderFor
      <3>2. k = p => ~SpentBy(q, k)
        BY <2>1, <3>1 DEF InOrder, SpentBy
      <3>3. SpentBy(q, k) => SpentBy(q, k)'
        BY <2>1, <2>2, <3>2 DEF SpentBy
      <3>4. InOrder(publisher[q], k)'
        BY <1>1, <2>1, <2>2, <3>1, <3>2 DEF InOrder
      <3>. QED BY <1>1, <2>1, <3>1, <3>3, <3>4
    <2>4. InOrderFor(q) => InOrderFor(q)'
      BY <2>3 DEF InOrderFor
    <2>. QED BY <1>1, <1>8, <2>1, <2>4 DEF PublisherAt
  <1>17. ASSUME NEW q \in Publishers, NEW p \in Posts, Send(q, p)
         PROVE  Alone'
    <2>1. /\ publisher[q].at = "send" /\ publisher[q].post = {p} /\ OthersWait(q)
          /\ publisher'[q].todo = publisher[q].todo /\ publisher'[q].post = {p}
          /\ \/ publisher'[q].at = "posted" /\ live'[p] = live[p] + 1 /\ slips' = slips
             \/ publisher'[q].at = "fail" /\ live'[p] \in {live[p], live[p] + 1} /\ slips' = slips + 1
          /\ \A k \in Posts : k # p => live'[k] = live[k]
          /\ UNCHANGED <<campaign, post, overlapped, stops>>
      BY <1>0, <1>17, SendStep DEF PublisherAt, InHand, Becomes
    <2>2. ASSUME InOrderFor(q), NEW k \in Posts \ TikTokPosts
          PROVE  /\ InOrder(publisher[q], k)'
                 /\ live'[k] <= slips' + stops' + (IF SpentBy(q, k)' THEN 1 ELSE 0)
      <3>1. /\ InOrder(publisher[q], k)
            /\ live[k] <= slips + stops + (IF SpentBy(q, k) THEN 1 ELSE 0)
        BY <2>2 DEF InOrderFor
      <3>2. k = p => ~SpentBy(q, k) /\ post[k].status = "publishing" /\ Gate(k)
        BY <2>1, <3>1 DEF InOrder, SpentBy
      <3>3. Gate(k)' = Gate(k) /\ (SpentBy(q, k) => SpentBy(q, k)')
        BY <2>1 DEF SpentBy, Gate
      <3>4. CASE k = p
        BY <1>1, <2>1, <3>1, <3>2, <3>3, <3>4 DEF InOrder, SpentBy
      <3>5. CASE k # p
        BY <1>1, <2>1, <3>1, <3>3, <3>5 DEF InOrder
      <3>. QED BY <3>4, <3>5
    <2>3. InOrderFor(q) => InOrderFor(q)'
      BY <2>2 DEF InOrderFor
    <2>4. slips' \in Nat /\ stops' \in Nat /\ \A k \in Posts : live'[k] \in Nat
      BY <1>1, <2>1
    <2>5. OthersWait(q) /\ overlapped' = overlapped /\ ~PublisherAt(q, "rest")
      BY <2>1 DEF PublisherAt
    <2>. QED BY <1>8, <2>3, <2>4, <2>5
  \* A step of q that leads to 'send' or 'posted' no more.
  <1>18. ASSUME NEW q \in Publishers, NEW p \in Posts, OthersWait(q), ~PublisherAt(q, "rest"),
                publisher[q].post = {p}, publisher'[q].post \in {{}, {p}},
                publisher'[q].todo = publisher[q].todo,
                publisher'[q].at \notin {"send", "posted"},
                UNCHANGED <<live, overlapped, stops>>, slips' \in {slips, slips + 1},
                \A k \in Posts : k # p => post'[k] = post[k],
                p \notin TikTokPosts =>
                   \/ publisher'[q].at # "fail" /\ post'[p].status = "published"
                   \/ /\ slips' = slips + 1 /\ publisher'[q].at = "fail" /\ post'[p] = post[p]
                   \/ /\ publisher[q].at = "fail" /\ publisher'[q].at # "fail"
                      /\ post'[p].status = "failed"
                   \/ ~(publisher[q].at = "posted" /\ Gate(p))
                      /\ publisher[q].at = "posted"
         PROVE  Alone'
    <2>1. ASSUME InOrderFor(q), NEW k \in Posts \ TikTokPosts
          PROVE  /\ InOrder(publisher[q], k)'
                 /\ live'[k] <= slips' + stops' + (IF SpentBy(q, k)' THEN 1 ELSE 0)
      <3>1. /\ InOrder(publisher[q], k)
            /\ live[k] <= slips + stops + (IF SpentBy(q, k) THEN 1 ELSE 0)
        BY <2>1 DEF InOrderFor
      <3>2. CASE k # p
        <4>1. SpentBy(q, k) => SpentBy(q, k)'
          BY <1>18, <3>2 DEF SpentBy
        <4>. QED BY <1>1, <1>18, <3>1, <3>2, <4>1 DEF InOrder
      <3>3. CASE k = p /\ slips' = slips + 1 /\ post'[p] = post[p]
        BY <1>1, <1>18, <3>1, <3>3 DEF InOrder
      <3>4. CASE k = p /\ publisher'[q].at # "fail" /\ post'[p].status = "published"
        <4>1. p \notin publisher'[q].todo
          BY <1>0, <1>18 DEF PublisherOK, RecordOK
        <4>2. InOrder(publisher[q], k)'
          BY <1>18, <3>4, <4>1 DEF InOrder
        <4>3. SpentBy(q, k)' /\ live'[k] = live[k]
          BY <1>18, <3>4 DEF SpentBy
        <4>4. live[k] <= slips' + stops' + 1
          BY <1>1, <1>18, <3>1
        <4>. QED BY <4>2, <4>3, <4>4
      <3>5. CASE /\ k = p /\ publisher[q].at = "fail" /\ publisher'[q].at # "fail"
                 /\ post'[p].status = "failed"
        BY <1>1, <1>18, <3>1, <3>5 DEF InOrder
      <3>6. CASE k = p /\ publisher[q].at = "posted" /\ ~Gate(p)
        BY <1>18, <3>1, <3>6 DEF InOrder
      <3>. QED BY <1>18, <3>2, <3>3, <3>4, <3>5, <3>6
    <2>2. InOrderFor(q) => InOrderFor(q)'
      BY <2>1 DEF InOrderFor
    <2>. QED BY <1>1, <1>8, <1>18, <2>2
  <1>19. ASSUME NEW q \in Publishers, NEW p \in Posts, RecordPublished(q, p)
         PROVE  Alone'
    <2>1. /\ publisher[q].at = "posted" /\ publisher[q].post = {p} /\ OthersWait(q)
          /\ publisher'[q].todo = publisher[q].todo /\ publisher'[q].post \in {{}, {p}}
          /\ publisher'[q].at \in {"next", "campaign", "fail"}
          /\ \A k \in Posts : k # p => post'[k] = post[k]
          /\ UNCHANGED <<live, overlapped, slips, stops>>
      BY <1>0, <1>19, RecordPublishedStep DEF PublisherAt, InHand, Becomes, PostBecomes, SameBudget
    <2>2. ~Gate(p) \/ (publisher'[q].at # "fail" /\ post'[p].status = "published")
      BY <1>0, <1>19, RecordPublishedStep DEF Becomes, PostBecomes
    <2>. QED BY <1>18, <2>1, <2>2 DEF PublisherAt
  <1>20. ASSUME NEW q \in Publishers, NEW p \in Posts, RecordUploaded(q, p)
         PROVE  Alone'
    <2>1. /\ p \in TikTokPosts /\ publisher[q].at = "posted" /\ publisher[q].post = {p}
          /\ publisher[q].todo = {} /\ OthersWait(q)
      BY <1>0, <1>20, RecordUploadedStep
         DEF PublisherAt, InHand, Becomes, Rests, PublisherOK, RecordOK, IsRun
    <2>2. /\ publisher'[q].todo = {} /\ publisher'[q].post \in {{}, {p}}
          /\ publisher'[q].at \in {"rest", "fail"}
      BY <1>0, <1>20, <2>1, RecordUploadedStep DEF Becomes, Rests, Resting, Starting
    <2>3. /\ \A k \in Posts : k # p => post'[k] = post[k]
          /\ UNCHANGED <<live, overlapped, slips, stops>>
      BY <1>0, <1>20, RecordUploadedStep DEF PostBecomes, SameBudget
    <2>. QED BY <1>18, <2>1, <2>2, <2>3 DEF PublisherAt
  <1>21. ASSUME NEW q \in Publishers, NEW p \in Posts, RecordFailed(q, p)
         PROVE  Alone'
    <2>1. /\ publisher[q].at = "fail" /\ publisher[q].post = {p} /\ OthersWait(q)
          /\ publisher'[q].todo = publisher[q].todo /\ publisher'[q].post \in {{}, {p}}
          /\ publisher'[q].at \in {"next", "campaign failed"}
          /\ post'[p].status = "failed"
          /\ \A k \in Posts : k # p => post'[k] = post[k]
          /\ UNCHANGED <<live, overlapped, slips, stops>>
      BY <1>0, <1>21, RecordFailedStep DEF PublisherAt, InHand, Becomes, PostBecomes, SameBudget
    <2>. QED BY <1>18, <2>1 DEF PublisherAt
  <1>22. ASSUME NEW q \in Publishers, StatementThrows(q)
         PROVE  Alone'
    <2>1. /\ publisher[q].at \in {"posted", "campaign"} /\ OthersWait(q)
          /\ publisher'[q].todo = publisher[q].todo /\ publisher'[q].post = publisher[q].post
          /\ publisher'[q].at = "fail" /\ slips' = slips + 1
          /\ UNCHANGED <<post, live, overlapped, stops>>
      BY <1>0, <1>22, StatementThrowsStep DEF Becomes
    <2>2. PICK p \in Posts : publisher[q].post = {p}
      BY <1>0, <2>1 DEF PublisherOK, RecordOK, PostSteps
    <2>. QED BY <1>18, <2>1, <2>2 DEF PublisherAt
  <1>. QED BY <1>3, <1>4, <1>5, <1>6, <1>7, <1>10, <1>11, <1>13, <1>14, <1>15, <1>16, <1>17, <1>19,
              <1>20, <1>21, <1>22
           DEF StudioNext, PublisherStep

-----------------------------------------------------------------------------
LEMMA StudioInitial == StudioInit => StudioInv
  <1>. SUFFICES ASSUME StudioInit PROVE StudioInv
    OBVIOUS
  <1>1. StudioTypeOK
    <2>1. Resting \in PublisherRow
      BY DEF Resting, Starting, PublisherRow, Working
    <2>2. [status |-> "pending_review", approved |-> FALSE, stored |-> FALSE] \in PostRow
      BY DEF PostRow, PostStatus, CampaignStatus
    <2>3. publisher \in [Publishers -> PublisherRow]
      BY <2>1 DEF StudioInit
    <2>4. post \in [Posts -> PostRow]
      BY <2>2 DEF StudioInit
    <2>5. campaign \in [Campaigns -> CampaignStatus]
      BY DEF StudioInit, CampaignStatus
    <2>6. live \in [Posts -> 0..MaxLive] /\ slips \in Nat /\ stops \in Nat
      BY SlipsAssumption DEF StudioInit
    <2>7. rejecting \subseteq Campaigns /\ refreshing \subseteq Posts /\ overlapped \in BOOLEAN
      BY DEF StudioInit
    <2>. QED BY <2>3, <2>4, <2>5, <2>6, <2>7 DEF StudioTypeOK
  <1>2. PublisherOK
    BY NewRecords DEF StudioInit, PublisherOK
  <1>3. Untouched
    BY DEF StudioInit, Untouched, Cold, Spared, Resting, Starting, PostsOf
  <1>4. RefreshingOK /\ PublishedIsApproved /\ BusyPosts /\ BusyCampaigns
    BY DEF StudioInit, RefreshingOK, PublishedIsApproved, BusyPosts, BusyCampaigns, Gated
  <1>5. Alone
    BY DEF StudioInit, Alone, OneAtWork, InOrder, Accounted, PublisherAt, Resting, Starting
  <1>. QED BY <1>1, <1>2, <1>3, <1>4, <1>5 DEF StudioInv

LEMMA StudioSteps == StudioInv /\ [StudioNext]_studioVars => StudioInv'
  <1>. SUFFICES ASSUME StudioInv, [StudioNext]_studioVars PROVE StudioInv'
    OBVIOUS
  <1>1. CASE UNCHANGED studioVars
    BY <1>1 DEF StudioInv, StudioTypeOK, PublisherOK, RefreshingOK, Untouched, Fresh, Cold,
       PublishedIsApproved, BusyPosts, BusyCampaigns, Alone, OneAtWork, PublisherAt, InOrder, Gate,
       Accounted, Spent, InHand
  <1>2. CASE StudioNext
    BY <1>2, StudioTyped, PublishersTyped, RefreshingTyped, StaysUntouched, StaysApproved,
       PostsStayBusy, CampaignsStayBusy, StaysAlone DEF StudioInv
  <1>. QED BY <1>1, <1>2

LEMMA StudioInvariant == StudioSpec => []StudioInv
  <1>. QED BY StudioInitial, StudioSteps, PTL DEF StudioSpec

-----------------------------------------------------------------------------
(* What it implies                                                           *)

\* Every row and publisher holds what the code can write there.
THEOREM StudioTypes == StudioSpec => []StudioTypeOK
  <1>1. StudioInv => StudioTypeOK BY DEF StudioInv
  <1>. QED BY <1>1, StudioInvariant, PTL

\* rejectMarketingCampaign: its first statement, guarded by 'pending_review', is all that keeps a
\* rejected campaign's posts from the networks, whatever approvals and publications run beside it.
THEOREM RejectionHolds == StudioSpec => []RejectedNeverGoesOut
  <1>1. StudioInv => RejectedNeverGoesOut
    BY CampaignsAssumption
       DEF StudioInv, StudioTypeOK, Untouched, Fresh, Cold, RejectedNeverGoesOut, PostsOf
  <1>. QED BY <1>1, StudioInvariant, PTL

\* The trigger and the claims keep what is on its way, uploaded or published approved.
THEOREM PublicationNeedsApproval == StudioSpec => []PublishedIsApproved
  <1>1. StudioInv => PublishedIsApproved BY DEF StudioInv
  <1>. QED BY <1>1, StudioInvariant, PTL

\* The catch blocks leave nothing 'publishing' behind; only the end of a process does.
THEOREM CatchBlocksCleanUp == StudioSpec => []NothingIsStranded
  <1>1. StudioInv => NothingIsStranded
    BY DEF StudioInv, BusyPosts, BusyCampaigns, Holder, Runner, NothingIsStranded, InHand
  <1>. QED BY <1>1, StudioInvariant, PTL

\* While no two publications overlap, the network takes a post once, and again for each mishap.
THEOREM RepostsAreMishaps == StudioSpec => []RepostNeedsMishap
  <1>1. StudioInv => RepostNeedsMishap
    <2>1. SUFFICES ASSUME StudioInv, ~overlapped, NEW p \in Posts \ TikTokPosts
                   PROVE  live[p] <= 1 + slips + stops
      BY DEF RepostNeedsMishap
    <2>2. Accounted(p)
      BY <2>1 DEF StudioInv, Alone
    <2>3. slips \in Nat /\ stops \in Nat /\ live[p] \in Nat
      BY <2>1, SlipsAssumption DEF StudioInv, StudioTypeOK
    <2>. QED BY <2>2, <2>3 DEF Accounted
  <1>. QED BY <1>1, StudioInvariant, PTL
=============================================================================
