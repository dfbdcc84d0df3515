\* One run with up to two step records, canceled, timed out, swept or stopped
\* anywhere. See README.md, "Bounds".
SPECIFICATION FairSpec
CONSTANTS
    r1 = r1
    r2 = r2
    k = k
    a1 = a1
    Runs <- First
    Keys <- OneKey
    KeyOf <- OneRun
    UniqueRuns <- First
    TimedRuns <- First
    BoundRuns <- First
    Admins = {a1}
    DateReadsAsTime = TRUE
    MaxSteps = 2
    MaxCrashes = 1
    MaxLost = 1
INVARIANTS RunningMeansLive WorkingRunHoldsItsKey FinalizationRules
PROPERTIES RefinesLifecycle CanceledRunsStop
\* A run returns once; the system stops when all have.
CHECK_DEADLOCK FALSE
