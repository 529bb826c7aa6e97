SPECIFICATION Spec

CONSTANTS
  w1 = w1
  w2 = w2
  w3 = w3
  s1 = s1
  a1 = a1
  a2 = a2
  global = global
  t1 = t1
  t2 = t2
  Global = global
  Unscoped = Unscoped
  Nobody = Nobody
  Writers = {w1, w2, w3}
  Streams = {s1}
  Tenants = {global, t1}
  Aggregates = {a1, a2}
  ScopeOfWriter <- TenantAndUnscoped
  ScopeOfStream <- OfTenant
  FetchLimit = 2
  MaxBatch = 2
  MaxSaves = 1
  MaxFailures = 1

INVARIANTS
  TypeOK
  GapFreeVersions
  BatchesAreAtomic
  DeliveredInOrder
  OnlyOvertakenEventsAreSkipped

SYMMETRY UnscopedWriters

CHECK_DEADLOCK FALSE
