CONSTANTS
  StatsDomains = {d1, d2}
  Recorders = {p1, p2}
  SampleCap = 2
  Window = 3
  MaxRequests = 3
  MaxNow = 7
SPECIFICATION StatsSpec
CHECK_DEADLOCK FALSE
INVARIANTS
  RPSCountsTheLastSeconds
