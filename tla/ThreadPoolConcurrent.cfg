SPECIFICATION FairSpec
CONSTANTS
  NumThread = 2
  DwordSize = 4
  Calls = {c1, c2, c3, c4}
  NoCall = NoCall
PROPERTY InRangeCallRuns
CHECK_DEADLOCK FALSE
