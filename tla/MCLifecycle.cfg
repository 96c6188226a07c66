CONSTANTS
  p1 = p1
  p2 = p2
  p3 = p3
  None = None
  Stale = Stale
  Foreign = Foreign
  Procs <- MCProcs
  MaxFaults <- MCMaxFaults
SPECIFICATION FairSpec
INVARIANTS
  TypeOK
  ServerOwnsHome
  PidfileNamesDaemon
  StopLeavesNothing
PROPERTIES
  UnitReachesServe
