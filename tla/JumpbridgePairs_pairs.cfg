\* Two writers, three systems, two operations: an addition against an addition, a
\* replacement, an import or the job. See README.md, "Bounds".
SPECIFICATION MCSpec
CONSTANTS
    w1 = w1  w2 = w2  sysA = sysA  sysB = sysB  sysC = sysC
    Writers <- TwoWriters
    Systems <- ThreeSystems
    MaxOps = 2
    MaxFound = 2
    SolarSystems <- SearchSystems
    Structures <- SearchStructures
    Characters <- SearchCharacters
    Corps <- SearchCorps
    Orgs <- SearchOrgs
    Serves <- SearchServes
    Ansiblexes <- SearchAnsiblexes
    Place <- SearchPlace
    Leads <- SearchLeads
    Nowhere = 0
    Owner <- SearchOwner
    Trusted <- SearchTrusted
    SovSystems <- SearchSov
    NoId = 0
    StartWorlds <- Worlds
    StartLinks <- Tables
    MaxRuns = 1
    MaxFaults = 1
    MaxMoves = 1
SYMMETRY Interchangeable
INVARIANTS HalfPairsHaveACause LinkedTwiceHasACause IdsAreOfTheirSystems CalmRunsDropGoneBridges
PROPERTIES RemovalsHaveACause AddedBridgesAreOurs
CHECK_DEADLOCK FALSE
