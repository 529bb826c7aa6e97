SPECIFICATION RelaySpec

CONSTANTS
  w1 = w1
  w2 = w2
  w3 = w3
  s1 = s1
  s2 = s2
  a1 = a1
  global = global
  t1 = t1
  t2 = t2
  subject = subject
  Global = global
  Everything = Everything
  NoSubject = NoSubject
  NoWriter = NoWriter
  NoStream = NoStream
  Subjects = {subject}
  PiiIDsOf <- NeverPii
  Writers = {w1, w2, w3}
  Streams = {s1, s2}
  Aggregates = {a1}
  Tenants = {global, t1, t2}
  ScopeOfWriter <- RaceBesideForeign
  ScopeOfStream <- ResolvedScopes
  AllTenants = AllTenants
  NotBound = NotBound
  BoundTo <- FirstIsBound
  OptionsOf <- StrayOptions
  MaxOpenErrors = 1
  Cancellable = {s2}
  LiveCap = 1
  MaxBatch = 1
  MaxCommands = 1

INVARIANTS
  RelayIsExact
  BoundTenantWins
PROPERTIES
  CommandsFinish
  EventsReachApplications

CHECK_DEADLOCK FALSE
