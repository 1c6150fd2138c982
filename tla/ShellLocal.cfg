SPECIFICATION LocalSpec
CONSTANTS
  r1 = r1
  r2 = r2
  ui = ui
  cli = cli
  tuiEndpoint = tuiEndpoint
  None = None
  Tui = tuiEndpoint
  Requests <- TwoRequests
  Endpoints <- ThreeEndpoints
  Mirrored = FALSE
  Capacity = 2
  MaxFailures = 2
CHECK_DEADLOCK FALSE
INVARIANTS OneDecision AgentObeys RuleMatchesResolution
PROPERTIES ResolutionFinal DecisionReachesAgent ImplementsOneShot
