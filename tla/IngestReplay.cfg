CONSTANTS
  t1 = t1
  t2 = t2
  m1 = m1
  m2 = m2
  m3 = m3
  m4 = m4
  NoThread = NoThread
  Threads <- MCThreads
  Messages <- ThreeMessages
  Malformed <- M2
  Unstorable <- M3
  Hot <- M1
  Keyed <- None
  BatchSize = 2
  DlqMax = 3
  ReplayMax = 2
  MaxReplays = 2
  MaxFaults = 1
SPECIFICATION FairSpec
INVARIANTS
  TypeOK
  MalformedIsolated
PROPERTIES
  WorkerFinishes
CHECK_DEADLOCK FALSE
