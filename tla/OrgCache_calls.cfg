\* Two operations or requests of two callers; then nobody asks for anything more.
SPECIFICATION Spec
SYMMETRY Sym
CHECK_DEADLOCK FALSE
CONSTANTS
  s1 = s1
  s2 = s2
  c1 = c1
  a1 = a1
  None = None
  Callers <- SomeCallers
  Corps <- SomeCorps
  Alliances <- SomeAlliances
  MaxOps = 2
  MaxTime = 3
  MaxHold = 1
  Ttl = 1
  Flight = 1
  MaxMoves = 1
  MaxFaults = 1
INVARIANTS AnswersAreRecent OnlyTheGoneAreClosed
PROPERTIES WaitsAreKept ClosedStaysClosed
