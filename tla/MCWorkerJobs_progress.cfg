SPECIFICATION WorkerFairSpec
CONSTANTS
    Foci = {"archive", "sales", "payment", "attempts"}
    Matches = {m1, m2}
    Profiles = {x1}
    Answers = {a1, a2, a3}
    Runs = {r1}
    Scorers = {s1}
    Syncers = {}
    FixtureLimit = 1
    NoMatch = NoMatch
    NoAnswer = NoAnswer
    NoCall = NoCall
    Errors = 1
    Outages = 1
    Uncertains = 0
    MostFaults = 1
    MaxFaults <- FaultBound
    Jobs = {j1, j2}
    Checkouts = {h1}
    Sales = {s1}
    Buyers = {}
    Enterprises = {}
    Customers = {c1}
    StarterPlan = {c1}
    MaxAttempts = 1
    LastDay = 0
    MonthLength = 1
    MaxMishaps = 1
    Campaigns = {"post", "draft", "posts"}
    Other = Other
    OtherTikTok = OtherTikTok
    Pair = Pair
    PairTikTok = PairTikTok
    Posts <- StudioPosts
    CampaignOf <- PostCampaign
    TikTokPosts <- PostsForTikTok
    Publishers = {w1, w2}
    MaxSlips = 2
    MaxLive = 2
    Prospects = {p1}
    Drafts = {d1, d2}
    Researchers = {w1, w2}
    Senders = {w1, w2}
    NoProspect = NoProspect
    MaxLapses = 1
    MaxBreaks = 1
    Tasks = {t1}
    AttemptsOf <- TwoAttempts
    Hands = {w1, w2}
    MaxErrors = 2
    Accounts = {x1, x2}
    Requests = {w1, w2}
    MaxTokens = 3
    MaxLosses = 1
    Issues = {i1, i2}
    People = {x1, x2}
    MaxLost = 2
PROPERTIES
    FixturesArePredicted
    ResultSettles
    EveryJobEnds
    OutboxDrains
CHECK_DEADLOCK FALSE
