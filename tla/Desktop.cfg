SPECIFICATION MCSpec
CONSTANTS
    None = None
    t1 = t1
    Terminals = {t1}
    MaxLosses = 2
    MaxCrashes = 1
    MaxRequests = 2
    MaxHandled = 3
INVARIANTS AnswerTakesEffectOnce AllowWasGranted MergeIsLayered SessionDenialHolds
           NothingLeaks RowsAgree OutputInOrder PromptHoldsTogether
           ViewConverges OneGeneration
PROPERTIES WorkspaceAnswerDecides 
CHECK_DEADLOCK FALSE
