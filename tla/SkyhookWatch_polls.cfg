\* Three characters of whom two take a turn, two overlapping runs.
SPECIFICATION WatchSpec
CONSTANTS
    n1 = n1  n2 = n2  r1 = r1  r2 = r2
    Characters <- ThreeCharacters
    Notifications <- TwoNotifications
    Audience <- Members
    Runs <- TwoRuns
    SinceWindow = 30
    CoverageWindow = 45
    MinInterval = 10
    MaxNow = 1
    MaxChanges = 1
    MaxMishaps = 1
SYMMETRY Alike
INVARIANTS MissedHaveACause EveryoneHasATurn
CHECK_DEADLOCK FALSE
