CONSTANTS
  dom1 = dom1
  dom2 = dom2
  target1 = target1
  target2 = target2
  Domains <- MCDomains
  Jobs = {j1, j2}
  UserLines <- MCUserLines
  MaxJobs = 2
  Bars = {b1, b2, b3}
  Stoppers = {s1}
  NoFile = NoFile
  Dead = Dead
  Foreign = Foreign
  MaxStarts = 4
  Systems = {"linux", "darwin", "windows"}
  MaxCAs = 2
  MaxCommands = 3
  MaxFaults = 1
  TuiNames = {1, 2}
  TuiValues = {target1, target2}
  Absent = Absent
  Cmds = {1, 2}
  Listener = Listener
  MaxVersions = 2
  MaxInputs = 3
  StatsDomains = {d1, d2}
  Recorders = {p1, p2}
  SampleCap = 2
  Window = 3
  MaxRequests = 3
  MaxNow = 7
SPECIFICATION MCSpec
CHECK_DEADLOCK FALSE
INVARIANTS
  TypesOK
  HostsFollowRoutes
  TrustAfterSetup
  UninstallIsComplete
  AnswersMeetTheirQuestion
  ScreenIsCurrent
  StatsAreRight
PROPERTIES
  LockAdmitsOne
