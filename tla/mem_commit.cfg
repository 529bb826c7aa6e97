SPECIFICATION Spec

CONSTANTS
  w1 = w1
  w2 = w2
  w3 = w3
  s1 = s1
  s2 = s2
  a1 = a1
  a2 = a2
  global = global
  t1 = t1
  t2 = t2
  subject = subject
  Global = global
  Everything = Everything
  NoSubject = NoSubject
  NoWriter = NoWriter
  NoStream = NoStream
  Subjects = {subject}
  PiiIDsOf <- SometimesPii
  Writers = {w1, w2, w3}
  Streams = {s1, s2}
  Aggregates = {a1}
  Tenants = {global, t1}
  ScopeOfWriter <- RaceBesideGlobal
  ScopeOfStream <- TenantAndEverything
  Cancellable = {s2}
  LiveCap = 1
  MaxBatch = 2
  MaxCommands = 1

INVARIANTS
  GapFreeVersions
  ExportIsWhole
  AcknowledgedOnceAndWhole
  StreamsAreExact
PROPERTIES
  KeepsTheContract

CHECK_DEADLOCK FALSE
