\* Two requests at a time for routes among four systems, over three bridge tables.
SPECIFICATION PlannerSpec
CONSTANTS
    r1 = r1  r2 = r2
    SolarSystems <- FourSystems
    Structures <- FourStructures
    Gates <- InARow
    MoreGates <- WithShortcut
    Tables <- ThreeTables
    Reported = {"c"}
    Requests <- TwoRequests
    Origin = "a"
    Routes <- TwoRoutes
    MaxRoutes = 2
    MaxChanges = 1
    MaxClears = 1
    MaxTroubles = 1
SYMMETRY Alike
INVARIANTS GraphIsRecent LegsAreShortest AutopilotHoldsOneRoute
CHECK_DEADLOCK FALSE
