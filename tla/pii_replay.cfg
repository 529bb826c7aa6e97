SPECIFICATION AuditSpec

CONSTANTS
  w1 = w1
  w2 = w2
  a1 = a1
  a2 = a2
  subject = subject
  NoAggregate = NoAggregate
  Subjects = {subject}
  NoSubject = NoSubject
  data = data
  request = request
  farewell = farewell
  foreign = foreign
  Payloads <- AllPayloads
  Declares <- WithFields
  Requests <- Erasing
  Registered <- Known
  Writers = {w1}
  Aggregates = {a1}
  Batches <- OneByOne
  MaxSaves = 3
  MaxFailures = 0
  MaxAudits = 0

INVARIANTS
  ReplayKeepsWorking

CHECK_DEADLOCK FALSE
