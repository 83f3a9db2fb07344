SPECIFICATION FairSpec
CONSTANTS
  Calls = {1, 2, 3, 4}
  NumThread = 2
  MaxThreadCnt = 2
  DwordSize = 8
  NoCall = NoCall
  MaxPackets = 1
INVARIANTS TypeOK FairDispatch WakesSuffice
PROPERTY HandlersLeave
CHECK_DEADLOCK FALSE
