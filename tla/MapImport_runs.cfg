\* Two files, an optional one and a layout; two runs, two releases.
SPECIFICATION FairSpec
CONSTANTS
    p1 = p1  p2 = p2
    Topology <- TwoFiles
    Optional <- OneOptional
    Systems = "systems"
    Early <- NoLayout
    Late <- OneLayout
    Pipelines <- TwoPipelines
    Changes <- SystemsAndPlanets
    MaxRelease = 2
    MaxAdmin = 1
    MaxFaults = 1
INVARIANTS MarksAreNotAhead LeftBehindHasACause
PROPERTIES ReleasesComeIn
CHECK_DEADLOCK FALSE
