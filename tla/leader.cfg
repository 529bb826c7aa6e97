SPECIFICATION FairSpec

CONSTANTS
  r1 = r1
  r2 = r2
  c1 = c1
  c2 = c2
  d1 = d1
  Replicas = {r1, r2}
  Connections = {c1, c2, d1}
  PoolOf <- TwoPools
  NoConnection = NoConnection
  FetchLimit = 2
  MaxEvents = 3
  MaxReleases = 1
  MaxLosses = 2
  MaxCrashes = 1
  MaxRefusals = 1

INVARIANTS
  OneConnectedLeader
  OnlyRefusedUnlocksStrand
  NothingIsSkipped
PROPERTIES
  CheckpointFallsBackOnlyAfterCut
  LeadershipIsTakenOver

CHECK_DEADLOCK FALSE
