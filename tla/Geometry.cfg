SPECIFICATION MCSpec
CONSTANTS
  c1 = c1  c2 = c2  a1 = a1
  CliSockets = {c1, c2}
  AppSockets = {a1}
  Sizes <- MCSizes
  DefaultSize = 0
  NoSize = NoSize
  MaxEpoch = 2
  MaxInbox = 1
  MaxGeneration = 3
INVARIANTS AuthorityOrder OneGeometryPerGeneration NewestKeepsLease
CHECK_DEADLOCK FALSE
