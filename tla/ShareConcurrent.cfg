SPECIFICATION Spec
CONSTANTS
  s1 = s1
  s2 = s2
  h1 = h1
  h2 = h2
  Null = Null
  Sessions <- OneSession
  Handlers <- TwoHandlers
  PauseWindow = 1
  MaxClock = 2
  MaxFailures = 1
SYMMETRY HandlerSymmetry
INVARIANTS
  TypeOK
  PausedHasDeadline
  ConnectingWasApproved
  AcceptedWasGranted
