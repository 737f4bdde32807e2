SPECIFICATION Spec
CONSTANTS
    ColocationThreshold = 2
    ContactWindow = 2
    MaxUpdates = 2
    FeedSlice = 2
    CandidateCap = 3
    FeedWindow = 3
    OutLimit = 1
    CascadeIdle = 2
    Outlets = {1, 2}
    Editor <- MCEditor
    Reporters <- MCReporters
    Firm <- MCFirm
    Subscribers <- MCSubscribers
    SubscriptionPrice = 2
    Advertisers <- MCAdvertisers
    CentsPerImpression = 1
    SourceWindow = 1
    ArticlesShown = 1
    Week = 2
    Agents = {1, 2, 3}
    Places = {1, 2}
    Owner <- MCOwner
    Rent <- MCRent
    Officials = {2}
    Themes <- MCThemes
    Algorithms = {"chronological", "engagement", "random", "adversarial"}
    InboxSlice = 1
    MaxDms = 1
    IdleTicks = 2
    BefriendWindow = 1
    Drafts <- MCDrafts
    StartCash <- MCStartCash
    LastTick = 3
INVARIANT FollowsRebuilt
