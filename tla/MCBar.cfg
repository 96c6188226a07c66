CONSTANTS
  n1 = n1
  v1 = v1
  None = None
  Names <- MCNames
  Values <- MCValues
  Refreshers <- MCRefreshers
  HubCap = 2
  OutCap = 1
SPECIFICATION FairSpec
INVARIANTS
  TypeOK
  MirrorLagHasACause
  DotFollowsStream
PROPERTIES
  Reconnects
