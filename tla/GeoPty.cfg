SPECIFICATION Spec
CONSTANTS
  c1 = c1  c2 = c2  a1 = a1
  CliSockets = {c1}
  AppSockets = {a1}
  Sizes <- MCSizes
  DefaultSize = 0
  NoSize = NoSize
  MaxEpoch = 2
  MaxInbox = 2
  MaxGeneration = 3
INVARIANT PtyHasAuthoritySize
CHECK_DEADLOCK FALSE
