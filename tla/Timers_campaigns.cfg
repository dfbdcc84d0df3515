\* One campaign that changes, two overlapping synchronisations and requests.
SPECIFICATION FairSpec
CONSTANTS
    c1 = c1  h1 = h1  s1 = s1  s2 = s2  a1 = a1  a2 = a2
    Campaigns <- OneCampaign
    Hooks <- OneHook
    Syncs <- TwoSyncs
    Requests <- TwoRequests
    MaxVersion = 1
    MaxNews = 1
    MaxRequests = 1
    MaxHooked = 2
    MaxFaults = 1
INVARIANTS TwinsHaveACause
PROPERTIES CalmRunsSettleTheTable TimersFollowTheCampaigns
CHECK_DEADLOCK FALSE
