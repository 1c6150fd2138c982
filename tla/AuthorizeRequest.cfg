SPECIFICATION FairSpec
CONSTANTS
  s1 = s1
  s2 = s2
  None = None
  Sessions <- OneSession
  Attempts = 2
  MaxFailures = 2
  MaxDrops = 1
CHECK_DEADLOCK FALSE
INVARIANTS TypeOK UserDecides AnswerMeetsItsWait
PROPERTIES ApprovalStands RequestIsDecided
