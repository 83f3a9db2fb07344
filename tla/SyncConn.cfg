SPECIFICATION FairSpec
CONSTANTS
  Callers = {c1, c2}
  MaxCalls = 2
  MaxOrder = 2
  None = None
INVARIANTS OwnAnswer FaultNeedsSharing
PROPERTY AnswerWakes
CHECK_DEADLOCK FALSE
