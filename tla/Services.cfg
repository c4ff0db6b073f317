CONSTANTS
  t1 = t1
  t2 = t2
  t3 = t3
  NoThread = NoThread
  api1 = api1
  api2 = api2
  entry = entry
  d1 = d1
  d2 = d2
  p1 = p1
  p2 = p2
  e1 = e1
  e2 = e2
  Sealed = Sealed
  Off = Off
  NoPrev = NoPrev
  content = content
  DirectHashes <- OneContent
  Threads <- ThreeThreads
  Processes <- OneProcess
  ProcessOf <- AllInOne
  MaxClock = 4
  Hosts <- TwoHosts
  HostOf <- OneOfThree
  Entries <- OneEntry
  Ttl = 1
  MaxIO = 1
  MaxTime = 3
  MaxChanges = 2
  Workers <- T12
  Detections <- D12
  Keyed <- D1
  Paths <- BothPaths
  SeenAt <- Times
  Window = 2
  MaxActions = 2
  Writers <- T12
  Packages <- P12
  Events <- E12
  Drivers <- BothDrivers
  MaxCrashes = 2
  MaxReadFaults = 1
  Callers <- T12
  Calls <- EveryCall
  MaxCalls = 3
SPECIFICATION AnySpec
SYMMETRY SameProcess
INVARIANTS
  TypesOK
  NoFork
  LinksSkipNoLoggedRow
  OnlyOpposedCallsStall
  BoundedStaleness
  OneBatchAlertPerIncident
  OneAlertPerSighting
  RecordBacked
  NoFalseAlarm
  AccessInTrail
PROPERTIES
  AppendOnly
CHECK_DEADLOCK FALSE
