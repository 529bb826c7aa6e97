SPECIFICATION FairSpec

CONSTANTS
  p1 = p1
  p2 = p2
  ann = ann
  bob = bob
  Subjects = {ann, bob}
  Origins = {1}
  Times = {1, 3}
  TicksPerSecond = 4
  Stored <- RoundedToMicroseconds
  Appenders = {p1, p2}
  NoAppender = NoAppender
  NoRow = NoRow
  MaxAppends = 2
  MaxFailures = 1

INVARIANTS
  ChainNeverForks
  ChecksOutUnlessRoundedOver
  TamperingShows
  AppendedOnceIfAcknowledged
PROPERTIES
  KeepsTheLedger
  AppendsReturn

CHECK_DEADLOCK FALSE
