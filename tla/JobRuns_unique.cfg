\* Two unique runs of one key, nothing going wrong.
CONSTANTS
    r1 = r1
    r2 = r2
    k = k
    a1 = a1
    Runs <- Both
    Keys <- OneKey
    KeyOf <- SameKey
    UniqueRuns <- Both
    TimedRuns <- First
    BoundRuns <- None
    Admins = {a1}
    DateReadsAsTime = FALSE
    MaxSteps = 0
    MaxCrashes = 0
    MaxLost = 0
SPECIFICATION Spec
INVARIANT UniqueRunsNeverOverlap
\* A run returns once; the system stops when all have.
CHECK_DEADLOCK FALSE
