SPECIFICATION FairSpec

CONSTANTS
  w1 = w1
  w2 = w2
  w3 = w3
  s1 = s1
  a1 = a1
  a2 = a2
  global = global
  t1 = t1
  t2 = t2
  Global = global
  Unscoped = Unscoped
  Nobody = Nobody
  Writers = {w1, w2}
  Streams = {s1}
  Tenants = {global, t1}
  Aggregates = {a1, a2}
  ScopeOfWriter <- NoTenants
  ScopeOfStream <- OfEverything
  FetchLimit = 2
  MaxBatch = 1
  MaxSaves = 1
  MaxFailures = 0

PROPERTIES
  AckedEventsReachOpenStreams

CHECK_DEADLOCK FALSE
