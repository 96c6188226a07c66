CONSTANTS
  Hosts = {h1, h2}
  t1 = t1
  t2 = t2
  Targets <- MCTargets
  Workers = {w1}
  None = None
  MaxMoves = 1
  MenuNames <- MCMenuNames
  Rows <- MCRows
  listener = listener
  refresh = refresh
  Writers = {listener, refresh}
  NoRoute = NoRoute
  Calls = {c1}
  Requests = {q1}
  Streams = {s1}
SPECIFICATION MCSpec
CHECK_DEADLOCK FALSE
INVARIANTS
  TypesOK
  HealthIsCurrent
  MenuIsCurrent
  ToggleComesBack
  EndIsClean
PROPERTIES
  HealthCatchesUp
  ProberStops
  ChangesAreDrawn
  StopEnds
