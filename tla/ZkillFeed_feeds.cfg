\* Three feeds of three numbers, a client, a shutdown and either a message of another
\* producer or a restart: enough for a killmail to leave the list of one recent
\* killmail, for a full queue and for a second process. See README.md, "Bounds".
SPECIFICATION FairSpec
CONSTANTS
    k1 = k1  k2 = k2  c1 = c1  region = region  other = other
    Undecodable = Undecodable  Unreadable = Unreadable
    Kills <- TwoKills  Reportable <- OneKill  Feeds <- SomeFeeds
    Clients <- OneClient  Topics <- TwoTopics  RegionTopic <- region
    Bodies <- ListedNumbers
    QueueSize = 1  MaxSequence = 3  MaxFetchPerTick = 2
    RecentSize = 1  MaxDisturbances = 1
INVARIANTS NoNumberIsPassedOver RepeatsAreFarApart SubscribersMissNothing
PROPERTIES FeedAdvances
CHECK_DEADLOCK FALSE
