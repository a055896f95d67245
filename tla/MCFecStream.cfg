CONSTANTS
  Geometries <- MCGeometries
  GroupMod = 8
  FlushTimeout = 1
  GroupIds <- MCGroupIds
  Origins <- MCOrigins
  MaxGroups = 2
  SweepEvery = 2
  Expiry = 0
  MaxPackets = 3
  MaxUpsets = 1
SPECIFICATION StreamLive
INVARIANTS RecoveredIsSent RepairsUpToM GroupsBounded
PROPERTY EveryGroupCloses
CHECK_DEADLOCK FALSE
