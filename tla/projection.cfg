SPECIFICATION FairSpec

CONSTANTS
  h1 = h1
  h2 = h2
  u1 = u1
  u2 = u2
  Handlers = {h1, h2}
  Aggregates = {u1, u2}
  MaxEvents = 3
  MaxFailures = 1

INVARIANTS
  TypeOK
  ReadYourWrites
  NoLostWakeup
  ViewIsReplayOfLog
  MailDespiteFailedProjector

PROPERTY
  WaitersAreWoken

CHECK_DEADLOCK FALSE
