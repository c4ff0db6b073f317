CONSTANTS
  t1 = t1
  t2 = t2
  p1 = p1
  p2 = p2
  p3 = p3
  h1 = h1
  g1 = g1
  sightings = sightings
  anpr = anpr
  NoThread = NoThread
  MicroBatch = MicroBatch
  Threads <- MCThreads
  Payloads <- P123
  Keyed <- P1
  BadKeys <- P3
  Topics <- MCTopics
  TopicOf <- MCTopicOf
  Buffered <- SightingsTopic
  Raw <- SightingsTopic
  Aliases <- MCAliases
  Handlers <- H1
  Groups <- G1
  GroupsOf <- MCGroupsOf
  DlqMax = 2
  Ttl = 2
  MaxTime = 1
  MaxPublishes = 2
  MaxReplays = 1
  MaxSubscriptions = 1
SPECIFICATION FairSpec
INVARIANTS
  TypeOK
  AtMostOnce
  OffsetNotAhead
  HandledOrQuarantined
PROPERTIES
  CallsReturn
CHECK_DEADLOCK FALSE
