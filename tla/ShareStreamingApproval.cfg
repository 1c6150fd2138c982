SPECIFICATION Spec
CONSTANTS
  s1 = s1
  s2 = s2
  h1 = h1
  h2 = h2
  Null = Null
  Sessions <- OneSession
  Handlers <- OneHandler
  PauseWindow = 1
  MaxClock = 4
  MaxFailures = 2
INVARIANT
  StreamingWasApproved
