SPECIFICATION FairSpec

CONSTANTS
  w1 = w1
  w2 = w2
  w3 = w3
  s1 = s1
  s2 = s2
  a1 = a1
  a2 = a2
  global = global
  t1 = t1
  t2 = t2
  subject = subject
  Global = global
  Everything = Everything
  NoSubject = NoSubject
  NoWriter = NoWriter
  NoStream = NoStream
  Subjects = {subject}
  PiiIDsOf <- NeverPii
  Writers = {w1}
  Streams = {s1}
  Aggregates = {a1}
  Tenants = {global, t1}
  ScopeOfWriter <- SameTenant
  ScopeOfStream <- AllEverything
  Cancellable = {s1}
  LiveCap = 1
  MaxBatch = 2
  MaxCommands = 2

PROPERTIES
  CancelledStreamsClose

CHECK_DEADLOCK FALSE
