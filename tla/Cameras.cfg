CONSTANTS
  v1 = v1
  v2 = v2
  c1 = c1
  c2 = c2
  c3 = c3
  k1 = k1
  k2 = k2
  t1 = t1
  t2 = t2
  s1 = s1
  s2 = s2
  s3 = s3
  a1 = a1
  a2 = a2
  Off = Off
  Viewers <- TwoViewers
  Cameras <- ThreeCameras
  Unsupported <- C3
  MaxActive = 1
  MaxConnect = 1
  MaxRequests = 4
  Threads <- T12
  Sites <- K12
  Seeded <- K1
  Local <- K2
  Near <- BothWays
  MaxReports = 5
  MaxMeanwhile = 1
  MaxBuilds = 2
  Dashboards <- S123
  Alerts <- A12
SPECIFICATION AnySpec
SYMMETRY Alike
INVARIANTS
  TypesOK
  OvershootBounded
  ReportInForce
  TopologyOfOneReading
  EveryClientServed
CHECK_DEADLOCK FALSE
