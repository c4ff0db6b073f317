CONSTANTS
  t1 = t1
  t2 = t2
  p1 = p1
  p2 = p2
  r1 = r1
  Off = Off
  Processes <- TwoProcesses
  References <- EveryReference
  LateTables <- LateOnes
  SortedTables <- Sorted
  UpgradeOrder <- Upgraded
  DowngradeOrder <- Downgraded
  MaxStarts = 3
  Drawn <- DrawnPlates
  SeedScopes <- OneByOne
  Threads <- TwoThreads
  Users <- Two
  Cameras <- InnerCamera
  Requests <- OneRequest
  Statewide <- Chief
  Approvers <- Chief
  UserOf <- Departments
  CameraOf <- Inner
  Durations <- AnHour
  MaxTime = 2
  MaxFeeds = 1
  MaxDecisions = 2
  Adapters <- TwoAdapters
  Window = 1
  Ttl = 1
  GovScopes <- ThreeDeployments
SPECIFICATION SeedsSpec
INVARIANTS
  ResetPurgesDemo
CHECK_DEADLOCK FALSE
