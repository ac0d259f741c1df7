SPECIFICATION WorkerSpec
CONSTANTS
    Foci = {"archive", "sales", "leads", "customers", "payment", "post", "draft", "posts", "outreach", "attempts", "social", "news"}
    Matches = {m1}
    Profiles = {x1, x2}
    Answers = {a1, a2, a3}
    Runs = {w1, w2}
    Scorers = {}
    Syncers = {y1}
    FixtureLimit = 1
    NoMatch = NoMatch
    NoAnswer = NoAnswer
    NoCall = NoCall
    Errors = 1
    Outages = 0
    Uncertains = 1
    MostFaults = 1
    MaxFaults <- FaultBound
    Jobs = {w1, w2}
    Checkouts = {h1}
    Sales = {s1}
    Buyers = {b1}
    Enterprises = {e1}
    Customers = {c1}
    StarterPlan = {c1}
    MaxAttempts = 1
    LastDay = 1
    MonthLength = 1
    MaxMishaps = 1
    Campaigns = {"post", "draft", "posts"}
    Other = Other
    OtherTikTok = OtherTikTok
    Pair = Pair
    PairTikTok = PairTikTok
    Posts <- StudioPosts
    CampaignOf <- PostCampaign
    TikTokPosts <- PostsForTikTok
    Publishers = {w1, w2}
    MaxSlips = 2
    MaxLive = 2
    Prospects = {p1}
    Drafts = {d1, d2}
    Researchers = {w1, w2}
    Senders = {w1, w2}
    NoProspect = NoProspect
    MaxLapses = 1
    MaxBreaks = 1
    Tasks = {t1}
    AttemptsOf <- TwoAttempts
    Hands = {w1, w2}
    MaxErrors = 4
    Accounts = {x1, x2}
    Requests = {w1, w2}
    MaxTokens = 3
    MaxLosses = 1
    Issues = {i1, i2}
    People = {x1, x2}
    MaxLost = 2
SYMMETRY Interchangeable
INVARIANTS
    WorkerTypeOK
    OneRowPerProfile
    AcknowledgedIsArchived
    OutboxIsAccounted
    RejectedNeverGoesOut
    PublishedIsApproved
    NothingIsStranded
    RepostNeedsMishap
    ApprovedIsAllowed
    SendingIsHeld
    RetriesAreAudited
    ConnectionIsUsable
    NewsletterIsAccounted
PROPERTIES
    ImplementsBook
CHECK_DEADLOCK FALSE
