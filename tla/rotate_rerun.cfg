SPECIFICATION FairSpec

CONSTANTS
  c1 = c1
  c2 = c2
  s1 = s1
  s2 = s2
  k1 = k1
  k2 = k2
  k3 = k3
  None = None
  Clients = {c1}
  Subjects = {s1, s2}
  Wrappers = {k1, k2}
  MaxKeys = 2
  MaxFailures = 1

PROPERTY
  RerunConverges

CHECK_DEADLOCK FALSE
