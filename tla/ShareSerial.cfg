SPECIFICATION FairSpec
CONSTANTS
  s1 = s1
  s2 = s2
  h1 = h1
  h2 = h2
  Null = Null
  Sessions <- TwoSessions
  Handlers <- OneHandler
  PauseWindow = 1
  MaxClock = 2
  MaxFailures = 1
INVARIANTS
  DecisionAppliedOnce
PROPERTIES
  VerdictFinal
  KeepAlive
  PauseEnds
